---------------------------- MODULE Spec2Model ----------------------------
(***************************************************************************)
(* A model of the PastoralScape discrete-event engine: the event queue     *)
(* (model/events.py), the simulation clock (model/time.py), the world grid *)
(* (model/world.py), the livestock state machines (model/livestock.py,     *)
(* model/disease.py) and the driver's main loop (driver.py).               *)
(*                                                                         *)
(* Dates are day numbers (naturals).  Python's None is modelled by the     *)
(* sentinels below, chosen so that every comparison TLC makes is between   *)
(* values of the same kind.                                                *)
(***************************************************************************)
EXTENDS Integers, Sequences, FiniteSets, Bags, TLC

VARIABLES
  \* ---- EventQueue (model/events.py) ----
  events,        \* EventQueue.events: the heapq array of (time, event, subject)
  lo_time,       \* EventQueue.lo_time (NoTime when None)
  hi_time,       \* EventQueue.hi_time (NoTime when None)
  \* ---- observation of the calls made on the queue ----
  call,          \* the last call: its operation, argument, outcome, and the array before it
  ncalls,        \* number of add_event calls made so far
  admitted,      \* bag of the triples pushed onto the heap so far
  returned,      \* bag of the triples returned by next_event so far
  drained,       \* the triples returned by next_event since the last add_event call
  \* ---- a second queue fed the same calls in another order ----
  eventsB,       \* the second EventQueue's heapq array
  callsA,        \* the add_event calls made on the first queue, in order
  callsB,        \* the add_event calls made on the second queue, in order
  drainedB,      \* the triples returned by the second queue's next_event
  phase,         \* which part of the two-queue scenario is running
  \* ---- Time (model/time.py) ----
  current_time,  \* Time.current_time
  last_timestep, \* Time.last_timestep (NoTime when None)
  time_call,     \* the last set_time call: argument, exception, current_time before it
  exited,        \* the process has ended through exit()
  \* ---- World (model/world.py) ----
  grid,          \* World.grid: for each (i, j) the resident list and the cell object
  location,      \* Person.location of each agent (NoCell when None)
  live_cells,    \* World.live_cells: none is TRUE while it is None
  \* ---- observation of the calls made on the world ----
  world_call,    \* the last call: its operation, arguments and exception
  nplaced,       \* number of place_agent calls made so far
  usage,         \* "misused" once a call was made in a way the program never makes it
  only_moves,    \* no place_agent or set_cell call since live_cells was built
  \* ---- a run of the driver (driver.py, model/livestock.py, model/disease.py) ----
  animals,       \* every Animal created so far; an animal's id is its position
  herds,         \* Herd.animals of each herdsman's herd: a list of animal ids
  tracker,       \* Tracker.deaths (days of death by cause) and Tracker.total_animals
  veg_capacity,  \* GridSpace.veg_capacity of the herdsman's cell (NoCapacity when None)
  decision,      \* HeadOfHousehold.decision and last_decision, per disease
  failure,       \* the exception that ended the run ("" while none has)
  dispatched,    \* the event the main loop dispatched last (NoEvent before the first)
  dispatch_count, \* bag of the (date, kind) of the events without a subject dispatched so far
  \* ---- World.neighborhood (model/world.py) ----
  neighbor_cache, \* World.neighbor_cache: the positions cached and their neighbor lists
  neighbor_call,  \* the last neighborhood call: its number, arguments and result
  \* ---- World.nearest_cell (model/world.py, model/initialize.py) ----
  cell_lat,       \* the latitude of the centre of each cell, by grid index
  cell_lon,       \* the longitude of the centre of each cell, by grid index
  first_dim_lat,  \* World.first_dim_lat
  lat_boundaries, \* World.lat_boundaries
  lon_boundaries, \* World.lon_boundaries
  nearest_call,   \* the last nearest_cell call: its argument and result
  \* ---- functions called on their own ----
  pure_call,      \* the last call: the function, its arguments and what it returned
  \* ---- the herdsmen on the move (model/agents.py) ----
  hmen            \* Herdsman.moving, current_path, current_path_step, next_waypoint,
                  \* latlon and direction, per herdsman

qvars == <<events, lo_time, hi_time, call, ncalls, admitted, returned, drained>>
pvars == <<eventsB, callsA, callsB, drainedB, phase>>
tvars == <<current_time, last_timestep, time_call, exited>>
wvars == <<grid, location, live_cells, world_call, nplaced, usage, only_moves>>
dvars == <<animals, herds, tracker, veg_capacity, decision, failure, dispatched,
          dispatch_count>>
nvars == <<neighbor_cache, neighbor_call>>
gvars == <<cell_lat, cell_lon, first_dim_lat, lat_boundaries, lon_boundaries, nearest_call>>
fvars == <<pure_call>>
mvars == <<hmen>>

-----------------------------------------------------------------------------
(***************************************************************************)
(* Bounds of the model.                                                    *)
(***************************************************************************)
MaxTime  == 1    \* add_event is called with times 0..MaxTime
MaxCalls == 4    \* add_event calls made on a queue
MaxPairCalls == 3 \* add_event calls made on each of the two compared queues
MaxDay   == 10   \* set_time is called with dates 0..MaxDay
MaxPlace == 2    \* place_agent calls made on a world
NumAgents == 2   \* agents (herdsmen) 1..NumAgents
Width  == 2      \* World.width; the grid has one row (World.height = 1)
StepSize == 2    \* Time.stepsize, in days

-----------------------------------------------------------------------------
(***************************************************************************)
(* None.                                                                   *)
(***************************************************************************)
NoTime == -1                 \* a bound or a marker that is None
NoEvent == <<>>              \* next_event's None; also "no exception raised"
NoSubject == [type |-> "None", id |-> 0, disease |-> ""]   \* subject=None

\* An object used as an event's subject: an Animal, a Herdsman, or the
\* (disease, animal) pair of a WEAROFF event.
Herdsman(i) == [type |-> "Herdsman", id |-> i, disease |-> ""]
Animal(i)   == [type |-> "Animal", id |-> i, disease |-> ""]
Wearoff(d, i) == [type |-> "Wearoff", id |-> i, disease |-> d]

-----------------------------------------------------------------------------
(***************************************************************************)
(* Event (events.py 32-60): the enumeration's values, which order the      *)
(* kinds.                                                                  *)
(***************************************************************************)
EventKinds == {"GISUPDATE", "CULL_OLDAGE", "LIV_FERTILE", "LIV_BIRTH", "VACCINATE",
               "INFECTION", "WEAROFF", "MOVEMENT", "WORLDSTEP", "AGENTSTEP"}

EventValue_movement_last(event) ==
  CASE event = "GISUPDATE"   -> 1
    [] event = "CULL_OLDAGE" -> 5
    [] event = "LIV_FERTILE" -> 12
    [] event = "LIV_BIRTH"   -> 14
    [] event = "VACCINATE"   -> 20
    [] event = "INFECTION"   -> 30
    [] event = "WEAROFF"     -> 40
    [] event = "MOVEMENT"    -> 120
    [] event = "WORLDSTEP"   -> 100
    [] event = "AGENTSTEP"   -> 110

EventValue(event) ==
  CASE event = "GISUPDATE"   -> 1
    [] event = "CULL_OLDAGE" -> 5
    [] event = "LIV_FERTILE" -> 12
    [] event = "LIV_BIRTH"   -> 14
    [] event = "VACCINATE"   -> 20
    [] event = "INFECTION"   -> 30
    [] event = "WEAROFF"     -> 40
    [] event = "MOVEMENT"    -> 50
    [] event = "WORLDSTEP"   -> 100
    [] event = "AGENTSTEP"   -> 110

\* Event.__lt__
EventLT(a, b) == EventValue(a) < EventValue(b)

\* The order of the disease names (Python compares the strings).
DiseaseNames == <<"cbpp", "fmd">>
DiseaseIndex(d) == CHOOSE i \in 1..Len(DiseaseNames) : DiseaseNames[i] = d

\* subject < subject, for two subjects that are not equal: Animal.__lt__ and
\* Person.__lt__ compare the ids; the (disease, animal) pairs compare the
\* disease names and then the animals.  Within one event kind the program
\* only ever uses subjects of one type.
SubjectLT(a, b) ==
  IF a.disease # b.disease
  THEN DiseaseIndex(a.disease) < DiseaseIndex(b.disease)
  ELSE a.id < b.id

TupleLT_NoSubject(a, b) ==
  IF a[1] # b[1] THEN a[1] < b[1]
  ELSE IF a[2] # b[2] THEN EventLT(a[2], b[2])
  ELSE FALSE

\* (time, event, subject) < (time, event, subject): Python's tuple comparison,
\* which compares the first pair of elements that are not equal.
TupleLT(a, b) ==
  IF a[1] # b[1] THEN a[1] < b[1]
  ELSE IF a[2] # b[2] THEN EventLT(a[2], b[2])
  ELSE IF a[3] # b[3] THEN SubjectLT(a[3], b[3])
  ELSE FALSE

-----------------------------------------------------------------------------
(***************************************************************************)
(* heapq, on a Python list kept as a sequence: position p of the list is   *)
(* element p+1 of the sequence.                                            *)
(***************************************************************************)
\* The element of a singleton set.  An operator below reads the list or
\* the record it is given through Once, so that the argument is evaluated
\* once however many times the operator refers to it.
Once(S) == CHOOSE x \in S : TRUE

RECURSIVE siftdown_loop(_, _, _, _)
siftdown_loop(heap0, startpos0, pos0, newitem0) ==
  Once({LET parentpos == (pos - 1) \div 2 IN
        IF pos > startpos /\ TupleLT(newitem, heap[parentpos + 1])
        THEN siftdown_loop([heap EXCEPT ![pos + 1] = heap[parentpos + 1]],
                           startpos, parentpos, newitem)
        ELSE [heap EXCEPT ![pos + 1] = newitem] :
        heap \in {heap0}, startpos \in {startpos0}, pos \in {pos0},
        newitem \in {newitem0}})

\* heapq._siftdown
siftdown(heap0, startpos, pos) ==
  Once({siftdown_loop(heap, startpos, pos, heap[pos + 1]) : heap \in {heap0}})

RECURSIVE siftup_loop(_, _, _, _)
siftup_loop(heap0, startpos0, pos0, newitem0) ==
  Once({LET endpos   == Len(heap)
            leftpos  == 2 * pos + 1
            rightpos == leftpos + 1
            childpos == IF rightpos < endpos /\ ~TupleLT(heap[leftpos + 1], heap[rightpos + 1])
                        THEN rightpos ELSE leftpos
        IN IF leftpos < endpos
           THEN siftup_loop([heap EXCEPT ![pos + 1] = heap[childpos + 1]],
                            startpos, childpos, newitem)
           ELSE siftdown([heap EXCEPT ![pos + 1] = newitem], startpos, pos) :
        heap \in {heap0}, startpos \in {startpos0}, pos \in {pos0},
        newitem \in {newitem0}})

\* heapq._siftup
siftup(heap0, pos) ==
  Once({siftup_loop(heap, pos, pos, heap[pos + 1]) : heap \in {heap0}})

\* heapq.heappush(heap, item)
heappush(heap0, item) ==
  Once({siftdown(Append(heap, item), 0, Len(heap)) : heap \in {heap0}})

heappop_last(heap) ==
  [heap |-> SubSeq(heap, 1, Len(heap) - 1), item |-> heap[Len(heap)]]

\* heapq.heappop(heap), for a heap that is not empty: the list after the call
\* and the item returned.
heappop(heap0) ==
  Once({LET lastelt == heap[Len(heap)]
            rest    == SubSeq(heap, 1, Len(heap) - 1)
        IN IF rest # <<>>
           THEN [heap |-> siftup([rest EXCEPT ![1] = lastelt], 0), item |-> rest[1]]
           ELSE [heap |-> rest, item |-> lastelt] :
        heap \in {heap0}})

\* x in list
InList(x, list) == \E i \in 1..Len(list) : list[i] = x

-----------------------------------------------------------------------------
(***************************************************************************)
(* EventQueue (events.py 73-114).  Each method is an operator from the     *)
(* queue's fields and the arguments to the fields after the call and the   *)
(* call's outcome.                                                         *)
(***************************************************************************)
in_bounds_exclusive(lo, hi, time) ==
  IF lo # NoTime /\ lo >= time THEN FALSE
  ELSE IF hi # NoTime /\ hi < time THEN FALSE
  ELSE TRUE

\* EventQueue.in_bounds
in_bounds(lo, hi, time) ==
  IF lo # NoTime /\ lo > time THEN FALSE
  ELSE IF hi # NoTime /\ hi < time THEN FALSE
  ELSE TRUE

add_event_no_lo(evs, lo, hi, time, event, subject) ==
  IF hi # NoTime /\ hi < time
  THEN [events |-> evs, raised |-> NoEvent, pushed |-> FALSE]
  ELSE IF event = "WORLDSTEP" /\ InList(<<time, event, subject>>, evs)
  THEN [events |-> evs, raised |-> NoEvent, pushed |-> FALSE]
  ELSE [events |-> heappush(evs, <<time, event, subject>>), raised |-> NoEvent, pushed |-> TRUE]

add_event_no_hi(evs, lo, hi, time, event, subject) ==
  IF lo # NoTime /\ lo > time
  THEN [events |-> evs, raised |-> <<time, event, subject>>, pushed |-> FALSE]
  ELSE IF event = "WORLDSTEP" /\ InList(<<time, event, subject>>, evs)
  THEN [events |-> evs, raised |-> NoEvent, pushed |-> FALSE]
  ELSE [events |-> heappush(evs, <<time, event, subject>>), raised |-> NoEvent, pushed |-> TRUE]

add_event_no_dedup(evs, lo, hi, time, event, subject) ==
  IF lo # NoTime /\ lo > time
  THEN [events |-> evs, raised |-> <<time, event, subject>>, pushed |-> FALSE]
  ELSE IF hi # NoTime /\ hi < time
  THEN [events |-> evs, raised |-> NoEvent, pushed |-> FALSE]
  ELSE [events |-> heappush(evs, <<time, event, subject>>), raised |-> NoEvent, pushed |-> TRUE]

\* EventQueue.add_event: raised is the EventOutOfBounds payload (NoEvent when
\* nothing is raised), pushed tells whether heappush was called.
add_event(evs, lo, hi, time, event, subject) ==
  IF lo # NoTime /\ lo > time
  THEN [events |-> evs, raised |-> <<time, event, subject>>, pushed |-> FALSE]
  ELSE IF hi # NoTime /\ hi < time
  THEN [events |-> evs, raised |-> NoEvent, pushed |-> FALSE]
  ELSE IF event = "WORLDSTEP"
  THEN IF ~InList(<<time, event, subject>>, evs)
       THEN [events |-> heappush(evs, <<time, event, subject>>),
             raised |-> NoEvent, pushed |-> TRUE]
       ELSE [events |-> evs, raised |-> NoEvent, pushed |-> FALSE]
  ELSE [events |-> heappush(evs, <<time, event, subject>>),
        raised |-> NoEvent, pushed |-> TRUE]

next_event_last(evs) ==
  IF Len(evs) > 0
  THEN [events |-> heappop_last(evs).heap, result |-> heappop_last(evs).item]
  ELSE [events |-> evs, result |-> NoEvent]

next_event_peek(evs) ==
  IF Len(evs) > 0
  THEN [events |-> evs, result |-> heappop(evs).item]
  ELSE [events |-> evs, result |-> NoEvent]

\* EventQueue.next_event
next_event(evs0) ==
  Once({IF Len(evs) > 0
        THEN Once({[events |-> r.heap, result |-> r.item] : r \in {heappop(evs)}})
        ELSE [events |-> evs, result |-> NoEvent] :
        evs \in {evs0}})

-----------------------------------------------------------------------------
(***************************************************************************)
(* The event queue on its own: any sequence of add_event and next_event    *)
(* calls on a queue with bounds [lo_time, hi_time], either of which may be *)
(* None.  The driver (driver.py 71-77) builds the queue from the run's     *)
(* start and end dates.                                                    *)
(***************************************************************************)
\* The subjects the program schedules with each kind of event.
SubjectsOf(event) ==
  CASE event = "MOVEMENT" -> {Herdsman(1), Herdsman(2)}
    [] event \in {"CULL_OLDAGE", "LIV_FERTILE", "LIV_BIRTH"} -> {Animal(1), Animal(2)}
    [] event = "WEAROFF" -> {Wearoff(DiseaseNames[1], 1), Wearoff(DiseaseNames[2], 1)}
    [] OTHER -> {NoSubject}

\* The calls made in the queue's own specification: three kinds, which tie
\* at equal times, and one herdsman.
QueueCalls ==
  {c \in (0..MaxTime) \X {"MOVEMENT", "WORLDSTEP", "AGENTSTEP"} \X {Herdsman(1), NoSubject} :
     c[3] \in SubjectsOf(c[2])}

\* The bounds a queue is built with: None, or a window lo_time <= hi_time.
QueueBounds ==
  {b \in (({NoTime} \cup (0..MaxTime)) \X ({NoTime} \cup (0..MaxTime))) :
     b[1] # NoTime /\ b[2] # NoTime => b[1] <= b[2]}

\* The bag of the elements of a list.
SeqToBag(list) ==
  [x \in {list[i] : i \in 1..Len(list)} |-> Cardinality({i \in 1..Len(list) : list[i] = x})]

NoCall == [op |-> "none", arg |-> NoEvent, raised |-> NoEvent, result |-> NoEvent,
           before |-> <<>>]

PairIdle ==
  /\ eventsB = <<>> /\ callsA = <<>> /\ callsB = <<>> /\ drainedB = <<>>
  /\ phase = "off"

TimeIdle ==
  /\ current_time = 0 /\ last_timestep = NoTime
  /\ time_call = [arg |-> 0, raised |-> NoEvent, before |-> 0]
  /\ exited = FALSE

\* No call of World.neighborhood: World.__init__ leaves the cache empty.
NeighborIdle ==
  /\ neighbor_cache = <<>>
  /\ neighbor_call = [n |-> 0, position |-> <<>>, r |-> 0, neighbors |-> <<>>]

\* No coordinates loaded: World.__init__ sets first_dim_lat to False and the
\* boundaries to None.
GeoIdle ==
  /\ cell_lat = <<>> /\ cell_lon = <<>>
  /\ first_dim_lat = FALSE
  /\ lat_boundaries = <<>> /\ lon_boundaries = <<>>
  /\ nearest_call = [n |-> 0, latlon |-> <<>>, result |-> <<>>]

\* No function called on its own.
PureIdle == pure_call = [op |-> "none"]

\* No herdsman has been created.
MoveIdle == hmen = <<>>

\* No run of the driver: no animal, no herd, nothing dispatched.
DriverIdle ==
  /\ animals = <<>> /\ herds = <<>>
  /\ tracker = [deaths |-> <<>>, total_animals |-> 0]
  /\ veg_capacity = NoTime /\ decision = <<>>
  /\ failure = "" /\ dispatched = NoEvent /\ dispatch_count = EmptyBag

\* World.__init__: every cell starts with no residents and the default cell
\* object, and live_cells is None.
WorldInit ==
  /\ grid = [c \in {0} \X (0..(Width - 1)) |->
               [residents |-> <<>>, cell |-> "GridSpace"]]
  /\ location = [a \in 1..NumAgents |-> <<>>]
  /\ live_cells = [none |-> TRUE, cells |-> {}]
  /\ world_call = [op |-> "none", raised |-> ""]
  /\ nplaced = 0
  /\ usage = "ok"
  /\ only_moves = TRUE

\* EventQueue.__init__
QueueInit ==
  /\ events = <<>>
  /\ \E b \in QueueBounds : lo_time = b[1] /\ hi_time = b[2]
  /\ call = NoCall
  /\ ncalls = 0
  /\ admitted = EmptyBag
  /\ returned = EmptyBag
  /\ drained = <<>>

\* A call eq.add_event(time, event, subject).
AddEvent(time, event, subject) ==
  /\ ncalls < MaxCalls
  /\ LET r == add_event(events, lo_time, hi_time, time, event, subject) IN
       /\ events' = r.events
       /\ call' = [op |-> "add_event", arg |-> <<time, event, subject>>,
                   raised |-> r.raised, result |-> NoEvent, before |-> events]
       /\ admitted' = IF r.pushed THEN admitted (+) SetToBag({<<time, event, subject>>})
                      ELSE admitted
  /\ ncalls' = ncalls + 1
  /\ drained' = <<>>
  /\ UNCHANGED <<lo_time, hi_time, returned>>

\* A call eq.next_event().
NextEvent ==
  /\ LET r == next_event(events) IN
       /\ events' = r.events
       /\ call' = [op |-> "next_event", arg |-> NoEvent, raised |-> NoEvent,
                   result |-> r.result, before |-> events]
       /\ returned' = IF r.result # NoEvent THEN returned (+) SetToBag({r.result})
                      ELSE returned
       /\ drained' = IF r.result # NoEvent THEN Append(drained, r.result) ELSE drained
  /\ UNCHANGED <<lo_time, hi_time, ncalls, admitted>>

QueueNext ==
  \/ \E c \in QueueCalls : AddEvent(c[1], c[2], c[3]) /\ UNCHANGED <<pvars, tvars, wvars, dvars, nvars, gvars, fvars, mvars>>
  \/ NextEvent /\ UNCHANGED <<pvars, tvars, wvars, dvars, nvars, gvars, fvars, mvars>>

vars == <<qvars, pvars, tvars, wvars, dvars, nvars, gvars, fvars, mvars>>

SpecQueueInit == QueueInit /\ PairIdle /\ TimeIdle /\ WorldInit /\ DriverIdle /\ NeighborIdle /\ GeoIdle /\ PureIdle /\ MoveIdle

SpecQueue == SpecQueueInit /\ [][QueueNext]_vars

-----------------------------------------------------------------------------
(***************************************************************************)
(* Properties of the event queue.                                          *)
(***************************************************************************)
\* The set of the elements of a list.
Range(list) == {list[i] : i \in 1..Len(list)}

\* b is not dispatched before a: later, or at the same time with a kind
\* that is not lower.
NotBefore(a, b) == a[1] < b[1] \/ (a[1] = b[1] /\ EventValue(a[2]) <= EventValue(b[2]))

\* C1: the events returned by consecutive next_event calls (no add_event call
\* in between) are in non-decreasing time order and, at equal times, in
\* non-decreasing order of the kinds' values.
C1_ReturnedInOrder ==
  \A i \in 1..(Len(drained) - 1) : NotBefore(drained[i], drained[i + 1])

\* Four events were added and then drained; two of them tie on the time and
\* differ in kind, and a later one follows.
C1_Witness ==
  /\ Len(drained) = 4 /\ events = <<>>
  /\ drained[1][1] = drained[2][1] /\ drained[1][2] # drained[2][2]
  /\ drained[2][1] < drained[4][1]

\* C2: add_event with a time before the lower bound raises EventOutOfBounds
\* carrying (time, kind, subject) and leaves the queue as it was.
C2_BelowLowerBoundRaises ==
  (call.op = "add_event" /\ lo_time # NoTime /\ call.arg[1] < lo_time)
    => (call.raised = call.arg /\ events = call.before)

C2_Witness ==
  /\ call.op = "add_event" /\ lo_time # NoTime /\ call.arg[1] < lo_time
  /\ call.raised = call.arg
  /\ Len(events) >= 2

C4_WorldstepDedup ==
  /\ \A i, j \in 1..Len(events) :
       (i # j /\ events[i] = events[j]) => events[i][2] # "WORLDSTEP"
  /\ (call.op = "add_event" /\ call.arg[2] = "WORLDSTEP" /\ call.arg \in Range(call.before))
       => events = call.before
  /\ (/\ call.op = "add_event" /\ call.arg[2] # "WORLDSTEP"
      /\ (lo_time = NoTime \/ lo_time <= call.arg[1])
      /\ (hi_time = NoTime \/ call.arg[1] <= hi_time))
       => SeqToBag(events) = SeqToBag(call.before) (+) SetToBag({call.arg})

\* A WORLDSTEP triple was scheduled again and added nothing, while the queue
\* holds two identical MOVEMENT triples.
C4_Witness ==
  /\ call.op = "add_event" /\ call.arg[2] = "WORLDSTEP" /\ call.arg \in Range(call.before)
  /\ events = call.before
  /\ \E i, j \in 1..Len(events) :
       i # j /\ events[i] = events[j] /\ events[i][2] = "MOVEMENT"

\* C5: every triple is returned as many times as it was admitted, less the
\* copies still in the queue (so exactly as many once the queue is drained);
\* next_event returns an event whenever the queue holds one, and on an empty
\* queue returns None and leaves the queue empty.
C5_ReturnedExactlyOnce ==
  /\ returned (+) SeqToBag(events) = admitted
  /\ (call.op = "next_event" /\ call.before # <<>>) => call.result # NoEvent
  /\ (call.op = "next_event" /\ call.before = <<>>)
       => (call.result = NoEvent /\ events = <<>>)

\* The queue was drained of four admitted events, two of them the same triple,
\* and next_event was called once more.
C5_Witness ==
  /\ call.op = "next_event" /\ call.before = <<>> /\ call.result = NoEvent
  /\ BagCardinality(returned) = 4 /\ returned = admitted
  /\ \E e \in BagToSet(returned) : CopiesIn(e, returned) = 2

-----------------------------------------------------------------------------
(***************************************************************************)
(* Two event queues with the same bounds.  The first is given a sequence   *)
(* of add_event calls, the second the same calls in any order; then both   *)
(* are drained by next_event, call by call.                                *)
(***************************************************************************)
PairCalls ==
  {c \in (0..MaxTime) \X {"MOVEMENT", "WORLDSTEP"} \X {Herdsman(1), Herdsman(2), NoSubject} :
     c[3] \in SubjectsOf(c[2])}

QueueIdle ==
  /\ call = NoCall /\ ncalls = 0 /\ admitted = EmptyBag /\ returned = EmptyBag

PairInit ==
  /\ events = <<>> /\ eventsB = <<>>
  /\ \E b \in QueueBounds : lo_time = b[1] /\ hi_time = b[2]
  /\ callsA = <<>> /\ callsB = <<>>
  /\ drained = <<>> /\ drainedB = <<>>
  /\ phase = "A"

\* add_event on the first queue.
PairAddA(time, event, subject) ==
  /\ phase = "A"
  /\ Len(callsA) < MaxPairCalls
  /\ events' = add_event(events, lo_time, hi_time, time, event, subject).events
  /\ callsA' = Append(callsA, <<time, event, subject>>)
  /\ UNCHANGED <<eventsB, callsB, drained, drainedB, phase, lo_time, hi_time>>

\* add_event on the second queue, of a call the first queue was given and the
\* second was not yet.
PairAddB(time, event, subject) ==
  /\ phase \in {"A", "B"}
  /\ CopiesIn(<<time, event, subject>>, SeqToBag(callsB))
       < CopiesIn(<<time, event, subject>>, SeqToBag(callsA))
  /\ eventsB' = add_event(eventsB, lo_time, hi_time, time, event, subject).events
  /\ callsB' = Append(callsB, <<time, event, subject>>)
  /\ phase' = "B"
  /\ UNCHANGED <<events, callsA, drained, drainedB, lo_time, hi_time>>

\* next_event on both queues, once both were given the same calls.
PairNextEvent ==
  /\ phase \in {"B", "drain"}
  /\ SeqToBag(callsA) = SeqToBag(callsB)
  /\ events # <<>> \/ eventsB # <<>>
  /\ events' = next_event(events).events
  /\ eventsB' = next_event(eventsB).events
  /\ drained' = Append(drained, next_event(events).result)
  /\ drainedB' = Append(drainedB, next_event(eventsB).result)
  /\ phase' = "drain"
  /\ UNCHANGED <<callsA, callsB, lo_time, hi_time>>

PairNext ==
  \/ \E c \in PairCalls : PairAddA(c[1], c[2], c[3])
                            /\ UNCHANGED <<call, ncalls, admitted, returned, tvars, wvars, dvars, nvars, gvars, fvars, mvars>>
  \/ \E c \in PairCalls : PairAddB(c[1], c[2], c[3])
                            /\ UNCHANGED <<call, ncalls, admitted, returned, tvars, wvars, dvars, nvars, gvars, fvars, mvars>>
  \/ PairNextEvent /\ UNCHANGED <<call, ncalls, admitted, returned, tvars, wvars, dvars, nvars, gvars, fvars, mvars>>

SpecPairInit == PairInit /\ QueueIdle /\ TimeIdle /\ WorldInit /\ DriverIdle /\ NeighborIdle /\ GeoIdle /\ PureIdle /\ MoveIdle

SpecPair == SpecPairInit /\ [][PairNext]_vars

\* C6: two queues given the same calls in different orders return the same
\* sequence of events; events with the same time come out by the value of
\* the kind and then by the subject's id.
C6_OrderIndependent ==
  /\ drained = drainedB
  /\ \A i \in 1..(Len(drained) - 1) :
       /\ NotBefore(drained[i], drained[i + 1])
       /\ (drained[i][1] = drained[i + 1][1] /\ drained[i][2] = drained[i + 1][2])
            => drained[i][3].id <= drained[i + 1][3].id

\* Three events of one time, given to the second queue in the reverse order,
\* were drained from both queues.
C6_Witness ==
  /\ phase = "drain" /\ events = <<>> /\ eventsB = <<>>
  /\ Len(drained) = 3 /\ drained = drainedB
  /\ Len(callsA) = 3 /\ callsB = <<callsA[3], callsA[2], callsA[1]>>
  /\ callsA[1][1] = callsA[2][1] /\ callsA[2][1] = callsA[3][1]
  /\ callsA[1] # callsA[2] /\ callsA[2] # callsA[3] /\ callsA[1] # callsA[3]

-----------------------------------------------------------------------------
(***************************************************************************)
(* Time (time.py 58-158).                                                  *)
(***************************************************************************)
set_time_strict(cur, time) ==
  IF cur >= time
  THEN [current_time |-> cur, raised |-> <<time, cur>>]
  ELSE [current_time |-> time, raised |-> NoEvent]

\* Time.set_time: raised is the TimeOrderViolation payload (NoEvent when
\* nothing is raised).
set_time(cur, time) ==
  IF cur > time
  THEN [current_time |-> cur, raised |-> <<time, cur>>]
  ELSE [current_time |-> time, raised |-> NoEvent]

\* Time.__init__(initial_date, stepsize)
TimeInit ==
  /\ \E d \in 0..MaxDay :
       /\ current_time = d
       /\ time_call = [arg |-> d, raised |-> NoEvent, before |-> d]
  /\ last_timestep = NoTime
  /\ exited = FALSE

\* A call time.set_time(d).
SetTime(d) ==
  /\ current_time' = set_time(current_time, d).current_time
  /\ time_call' = [arg |-> d, raised |-> set_time(current_time, d).raised,
                   before |-> current_time]
  /\ UNCHANGED <<last_timestep, exited>>

TimeNext == \E d \in 0..MaxDay : SetTime(d) /\ UNCHANGED <<qvars, pvars, wvars, dvars, nvars, gvars, fvars, mvars>>

SpecTimeInit ==
  /\ TimeInit
  /\ events = <<>> /\ lo_time = NoTime /\ hi_time = NoTime /\ drained = <<>>
  /\ QueueIdle /\ PairIdle /\ WorldInit /\ DriverIdle /\ NeighborIdle /\ GeoIdle /\ PureIdle /\ MoveIdle

SpecTime == SpecTimeInit /\ [][TimeNext]_vars

-----------------------------------------------------------------------------
(***************************************************************************)
(* World (world.py 139-387): the grid, the residents of its cells and the  *)
(* live-cell index.                                                        *)
(***************************************************************************)
NoCell == <<>>               \* a location that is None

Cells == {0} \X (0..(Width - 1))

Agents == 1..NumAgents

\* list.remove(x), for a list that holds x: the list without the first x.
ListRemove(list, x) ==
  LET i == CHOOSE k \in 1..Len(list) : list[k] = x /\ \A j \in 1..(k - 1) : list[j] # x
  IN SubSeq(list, 1, i - 1) \o SubSeq(list, i + 1, Len(list))

\* The cells with at least one resident.
Occupied(g) == {c \in DOMAIN g : g[c].residents # <<>>}

current_step_duration_default(last, cur) == StepSize

\* Time.current_step_duration
current_step_duration(last, cur) ==
  IF last = NoTime THEN StepSize ELSE cur - last

\* World.set_cell(position, cell_obj)
set_cell(g, position, cell_obj) ==
  [g EXCEPT ![position] = [residents |-> <<>>, cell |-> cell_obj]]

\* World.place_agent(agent, position)
place_agent(g, loc, agent, position) ==
  [grid |-> [g EXCEPT ![position].residents = Append(@, agent)],
   location |-> [loc EXCEPT ![agent] = position]]

move_keeps_index(g, live, loc, agent, position) ==
  LET old == loc[agent] IN
  IF old = NoCell \/ ~InList(agent, g[old].residents) \/ live.none
  THEN [grid |-> g, live_cells |-> live, location |-> loc, raised |-> "ValueError"]
  ELSE [grid |-> [[g EXCEPT ![old].residents = ListRemove(@, agent)]
                     EXCEPT ![position].residents = Append(@, agent)],
        live_cells |-> [live EXCEPT !.cells = @ \cup {position}],
        location |-> [loc EXCEPT ![agent] = position],
        raised |-> ""]

move_keeps_location(g, live, loc, agent, position) ==
  LET old == loc[agent] IN
  IF old = NoCell \/ ~InList(agent, g[old].residents) \/ live.none
  THEN [grid |-> g, live_cells |-> live, location |-> loc, raised |-> "ValueError"]
  ELSE LET g1 == [g EXCEPT ![old].residents = ListRemove(@, agent)]
           g2 == [g1 EXCEPT ![position].residents = Append(@, agent)]
       IN [grid |-> g2,
           live_cells |-> [live EXCEPT !.cells = Occupied(g2)],
           location |-> loc,
           raised |-> ""]

move_append_first(g, live, loc, agent, position) ==
  LET old == loc[agent] IN
  IF old = NoCell
  THEN [grid |-> g, live_cells |-> live, location |-> loc, raised |-> "ValueError"]
  ELSE IF ~InList(agent, g[old].residents)
  THEN [grid |-> [g EXCEPT ![position].residents = Append(@, agent)],
        live_cells |-> live, location |-> loc, raised |-> "ValueError"]
  ELSE IF live.none
  THEN [grid |-> g, live_cells |-> live, location |-> loc, raised |-> "ValueError"]
  ELSE LET g1 == [g EXCEPT ![old].residents = ListRemove(@, agent)]
           g2 == [g1 EXCEPT ![position].residents = Append(@, agent)]
       IN [grid |-> g2,
           live_cells |-> [live EXCEPT !.cells = Occupied(g2)],
           location |-> [loc EXCEPT ![agent] = position],
           raised |-> ""]

\* World.move(agent, position): the grid, the index and the locations after
\* the call, and the exception that ended it ("" when it returned).  An
\* exception leaves what the statements before it had done.
move(g, live, loc, agent, position) ==
  LET old == loc[agent] IN
  IF old = NoCell
  THEN \* self.grid[None] is not a (residents, cell) pair
       [grid |-> g, live_cells |-> live, location |-> loc, raised |-> "ValueError"]
  ELSE IF ~InList(agent, g[old].residents)
  THEN \* residents.remove(agent)
       [grid |-> g, live_cells |-> live, location |-> loc, raised |-> "ValueError"]
  ELSE
    LET g1 == [g EXCEPT ![old].residents = ListRemove(@, agent)] IN
    IF g1[old].residents = <<>> /\ live.none
    THEN \* None.remove(old_position)
         [grid |-> g1, live_cells |-> live, location |-> loc, raised |-> "AttributeError"]
    ELSE IF g1[old].residents = <<>> /\ old \notin live.cells
    THEN \* set.remove of a missing element
         [grid |-> g1, live_cells |-> live, location |-> loc, raised |-> "KeyError"]
    ELSE
      LET live1 == IF g1[old].residents = <<>>
                   THEN [live EXCEPT !.cells = @ \ {old}] ELSE live
          g2 == [g1 EXCEPT ![position].residents = Append(@, agent)]
      IN IF live1.none
         THEN \* position not in None
              [grid |-> g2, live_cells |-> live1, location |-> loc, raised |-> "TypeError"]
         ELSE [grid |-> g2,
               live_cells |-> [live1 EXCEPT !.cells = @ \cup {position}],
               location |-> [loc EXCEPT ![agent] = position],
               raised |-> ""]

build_live_cells_never(g, live) == live

\* World.step, lines 350-356: the index is built from a scan of the grid when
\* it is still None.
build_live_cells(g, live) ==
  IF live.none THEN [none |-> FALSE, cells |-> Occupied(g)] ELSE live

(***************************************************************************)
(* The world on its own: any sequence of set_cell, place_agent, move and   *)
(* step calls on a world of one row.  The agents' herds hold no animals,   *)
(* so that step has no herd to feed and no disease to spread; the clock    *)
(* stands still, so that a second step finds no time elapsed and exits.    *)
(***************************************************************************)
\* A call world.set_cell(position, cell_obj).
SetCell(position, cell_obj) ==
  /\ ~exited
  /\ grid' = set_cell(grid, position, cell_obj)
  /\ world_call' = [op |-> "set_cell", raised |-> ""]
  /\ usage' = IF grid[position].residents # <<>> THEN "misused" ELSE usage
  /\ only_moves' = (only_moves /\ live_cells.none)
  /\ UNCHANGED <<location, live_cells, nplaced>>

\* A call world.place_agent(agent, position).
PlaceAgent(agent, position) ==
  /\ ~exited
  /\ nplaced < MaxPlace
  /\ grid' = place_agent(grid, location, agent, position).grid
  /\ location' = place_agent(grid, location, agent, position).location
  /\ world_call' = [op |-> "place_agent", raised |-> ""]
  /\ nplaced' = nplaced + 1
  /\ usage' = IF location[agent] # NoCell \/ ~live_cells.none THEN "misused" ELSE usage
  /\ only_moves' = (only_moves /\ live_cells.none)
  /\ UNCHANGED live_cells

\* A call world.move(agent, position).
Move(agent, position) ==
  /\ ~exited
  /\ LET r == move(grid, live_cells, location, agent, position) IN
       /\ grid' = r.grid
       /\ live_cells' = r.live_cells
       /\ location' = r.location
       /\ world_call' = [op |-> "move", raised |-> r.raised]
  /\ usage' = IF live_cells.none THEN "misused" ELSE usage
  /\ UNCHANGED <<nplaced, only_moves>>

\* A call world.step(params, time) on a world whose herds are empty.
WorldStepEmpty ==
  /\ ~exited
  /\ IF current_step_duration(last_timestep, current_time) = 0
     THEN /\ exited' = TRUE
          /\ UNCHANGED <<live_cells, last_timestep>>
     ELSE /\ live_cells' = build_live_cells(grid, live_cells)
          /\ last_timestep' = current_time
          /\ UNCHANGED exited
  /\ world_call' = [op |-> "step", raised |-> ""]
  /\ UNCHANGED <<grid, location, nplaced, usage, only_moves, current_time, time_call>>

WorldNext ==
  \/ \E c \in Cells : SetCell(c, "Village") /\ UNCHANGED <<qvars, pvars, tvars, dvars, nvars, gvars, fvars, mvars>>
  \/ \E a \in Agents, c \in Cells : PlaceAgent(a, c) /\ UNCHANGED <<qvars, pvars, tvars, dvars, nvars, gvars, fvars, mvars>>
  \/ \E a \in Agents, c \in Cells : Move(a, c) /\ UNCHANGED <<qvars, pvars, tvars, dvars, nvars, gvars, fvars, mvars>>
  \/ WorldStepEmpty /\ UNCHANGED <<qvars, pvars, dvars, nvars, gvars, fvars, mvars>>

SpecWorldInit ==
  /\ WorldInit /\ TimeIdle
  /\ events = <<>> /\ lo_time = NoTime /\ hi_time = NoTime /\ drained = <<>>
  /\ QueueIdle /\ PairIdle /\ DriverIdle /\ NeighborIdle /\ GeoIdle /\ PureIdle /\ MoveIdle

SpecWorld == SpecWorldInit /\ [][WorldNext]_vars

\* The cells whose resident list holds the agent.
CellsOf(agent) == {c \in Cells : InList(agent, grid[c].residents)}

\* C8: once step has built live_cells, and as long as only moves are made
\* on the world, live_cells is exactly the set of the cells whose resident
\* list is not empty.
C8_LiveCellsExact ==
  (~live_cells.none /\ only_moves) => live_cells.cells = Occupied(grid)

\* A move has just emptied the cell its agent left, with both agents now in
\* one cell.
C8_Witness ==
  /\ ~live_cells.none /\ only_moves
  /\ world_call.op = "move" /\ world_call.raised = ""
  /\ \E c \in Cells : grid[c].residents = <<>> /\ c \notin live_cells.cells
  /\ \E c \in Cells : Len(grid[c].residents) = 2 /\ c \in live_cells.cells
  /\ usage = "ok"

\* C9, as claimed: after any sequence of place_agent, move and set_cell
\* calls, every placed agent is in the resident list of the cell its location
\* names and of no other cell.
C9_AnySequence ==
  \A a \in Agents : location[a] # NoCell => CellsOf(a) = {location[a]}

\* C9, amended: the same, for the sequences in which set_cell is only called
\* on cells without residents, place_agent is only called for an agent not
\* yet placed and before live_cells is built, and move is only called once
\* live_cells is built.
C9_LocationMatchesResidents ==
  usage = "ok" => \A a \in Agents : location[a] # NoCell => CellsOf(a) = {location[a]}

\* Both agents were placed, the index was built, and a move has just taken an
\* agent to the other agent's cell.
C9_Witness ==
  /\ usage = "ok"
  /\ world_call.op = "move" /\ world_call.raised = ""
  /\ \A a \in Agents : location[a] # NoCell
  /\ \E c \in Cells : Len(grid[c].residents) = 2

-----------------------------------------------------------------------------
(***************************************************************************)
(* A run of the driver (driver.py 62-204): one head of household and its   *)
(* herdsman, whose village has no paths, so that the herdsman never leaves *)
(* it; one disease.  The run's parameters (the YAML file) are the          *)
(* definitions below: periods are in days and health is in units of the    *)
(* animals' initial health.                                                *)
(***************************************************************************)
EndDay == 2            \* end_date: the run covers the days 0..EndDay
NumAnimals == 2        \* n_animals: the animals created at initialization
MaxAnimals == 3        \* births are followed while fewer animals than this exist

GestationPeriod == 1   \* params['livestock']['gestation_period']
NursingPeriod == 1     \* params['livestock']['nursing_period']
Maturity == 1          \* params['livestock']['maturity']
InitialHealth == 1     \* params['livestock']['initial_health'] (the health 1.0)
MinBreedHealth == 1    \* params['livestock']['min_breed_health']
HealthFed == 1         \* params['livestock']['health_fed'], per day
HealthStarve == 1      \* params['livestock']['health_starve'], per day

Herdsmen == {1}                      \* n_hoh = 1: herdsman 1 and its herd
RunDiseases == {DiseaseNames[1]}     \* the keys of params['disease']
Lifespans == {1, EndDay + 1}         \* days an animal has left when its cull is scheduled
WearoffDays == {1}                   \* int(wearoff_days) sampled by Animal.immunize
VaccinationDays == {1}               \* the dates of the vaccination schedule
VegLevels == {0, 1}                  \* veg_capacity: bare (0) or enough to feed every herd (1)
NoCapacity == NoTime                 \* GridSpace.veg_capacity = None
DeathCauses == {"age", "health"} \cup RunDiseases

\* Animal.__init__
NewAnimal(gender, birthday, herd) ==
  [birthday |-> birthday, gender |-> gender, herd |-> herd, active |-> TRUE,
   fertile |-> FALSE, pregnant |-> FALSE, nursing |-> FALSE,
   health |-> InitialHealth, diseases |-> [d \in {} |-> "S"]]

\* Animal.set_disease_state, on the animal's diseases dictionary
set_disease_state(diseases, disease, state) ==
  [d \in (DOMAIN diseases) \cup {disease} |-> IF d = disease THEN state ELSE diseases[d]]

(***************************************************************************)
(* The handlers are functions of the objects they can change, gathered in  *)
(* a record st: the animals, the herds, the queue's array, the tracker and *)
(* the exception raised so far ("" when none), after which nothing more    *)
(* is done.                                                                *)
(***************************************************************************)
\* model_state.event_queue.add_event(time, event, subject)
schedule(st0, time, event, subject) ==
  LET Body(st) ==
      IF st.failure # "" THEN st
      ELSE LET r == add_event(st.events, lo_time, hi_time, time, event, subject) IN
           IF r.raised # NoEvent
           THEN [st EXCEPT !.failure = "EventOutOfBounds"]
           ELSE [st EXCEPT !.events = r.events]
  IN Once({Body(x) : x \in {st0}})

record_death_twice(st0, cause, day) ==
  LET Body(st) ==
      IF st.failure # "" THEN st
      ELSE [st EXCEPT !.tracker.deaths[cause] = Append(Append(@, day), day)]
  IN Once({Body(x) : x \in {st0}})

\* Tracker.record_death(cause, time)
record_death(st0, cause, day) ==
  LET Body(st) ==
      IF st.failure # "" THEN st
      ELSE [st EXCEPT !.tracker.deaths[cause] = Append(@, day)]
  IN Once({Body(x) : x \in {st0}})

Herd_cull_keeps_active(st0, a) ==
  LET Body(st) ==
      LET h == st.animals[a].herd IN
      IF st.failure # "" THEN st
      ELSE IF ~InList(a, st.herds[h]) THEN [st EXCEPT !.failure = "ValueError"]
      ELSE [st EXCEPT !.herds[h] = ListRemove(@, a)]
  IN Once({Body(x) : x \in {st0}})

\* Herd.cull(animal), called as animal.herd.cull(animal): list.remove raises
\* ValueError when the animal is not in the list.
Herd_cull(st0, a) ==
  LET Body(st) ==
      LET h == st.animals[a].herd IN
      IF st.failure # "" THEN st
      ELSE IF ~InList(a, st.herds[h]) THEN [st EXCEPT !.failure = "ValueError"]
      ELSE [st EXCEPT !.herds[h] = ListRemove(@, a), !.animals[a].active = FALSE]
  IN Once({Body(x) : x \in {st0}})

Animal_breed_stays_fertile(st0, a, time) ==
  LET Body(st) ==
      IF st.failure # "" THEN st
      ELSE schedule([st EXCEPT !.animals[a].pregnant = TRUE,
                               !.animals[a].nursing = FALSE],
                    time + GestationPeriod, "LIV_BIRTH", Animal(a))
  IN Once({Body(x) : x \in {st0}})

\* Animal.breed(time)
Animal_breed(st0, a, time) ==
  LET Body(st) ==
      IF st.failure # "" THEN st
      ELSE schedule([st EXCEPT !.animals[a].pregnant = TRUE,
                               !.animals[a].fertile = FALSE,
                               !.animals[a].nursing = FALSE],
                    time + GestationPeriod, "LIV_BIRTH", Animal(a))
  IN Once({Body(x) : x \in {st0}})

Animal_spawn_inherits(st0, a, time, gender, lifespan) ==
  LET Body(st) ==
      LET id == Len(st.animals) + 1
          child == [NewAnimal(gender, time, st.animals[a].herd) EXCEPT
                      !.diseases = st.animals[a].diseases]
          s1 == [st EXCEPT !.animals = Append(@, child),
                           !.tracker.total_animals = @ + 1]
          s2 == schedule(s1, time + lifespan, "CULL_OLDAGE", Animal(id))
      IN IF gender = "FEMALE"
         THEN schedule(s2, time + Maturity, "LIV_FERTILE", Animal(id))
         ELSE s2
  IN Once({Body(x) : x \in {st0}})

Animal_spawn_no_maturity(st0, a, time, gender, lifespan) ==
  LET Body(st) ==
      LET id == Len(st.animals) + 1
          child == [NewAnimal(gender, time, st.animals[a].herd) EXCEPT
                      !.diseases = [d \in DOMAIN st.animals[a].diseases |-> "S"]]
          s1 == [st EXCEPT !.animals = Append(@, child),
                           !.tracker.total_animals = @ + 1]
      IN schedule(s1, time + lifespan, "CULL_OLDAGE", Animal(id))
  IN Once({Body(x) : x \in {st0}})

Animal_spawn_unrecorded(st0, a, time, gender, lifespan) ==
  LET Body(st) ==
      LET id == Len(st.animals) + 1
          child == [NewAnimal(gender, time, st.animals[a].herd) EXCEPT
                      !.diseases = [d \in DOMAIN st.animals[a].diseases |-> "S"]]
          s1 == [st EXCEPT !.animals = Append(@, child)]
          s2 == schedule(s1, time + lifespan, "CULL_OLDAGE", Animal(id))
      IN IF gender = "FEMALE"
         THEN schedule(s2, time + Maturity, "LIV_FERTILE", Animal(id))
         ELSE s2
  IN Once({Body(x) : x \in {st0}})

\* Animal.spawn(time): gender and lifespan are the two random draws.  The
\* child is the next animal created.
Animal_spawn(st0, a, time, gender, lifespan) ==
  LET Body(st) ==
      LET id == Len(st.animals) + 1
          child == [NewAnimal(gender, time, st.animals[a].herd) EXCEPT
                      !.diseases = [d \in DOMAIN st.animals[a].diseases |-> "S"]]
          s1 == [st EXCEPT !.animals = Append(@, child),
                           !.tracker.total_animals = @ + 1]
          s2 == schedule(s1, time + lifespan, "CULL_OLDAGE", Animal(id))
      IN IF gender = "FEMALE"
         THEN schedule(s2, time + Maturity, "LIV_FERTILE", Animal(id))
         ELSE s2
  IN Once({Body(x) : x \in {st0}})

Animal_handle_event_stays_pregnant(st0, a, time, event, gender, lifespan) ==
  LET Body(st) ==
      IF event = "LIV_BIRTH"
      THEN IF ~(st.animals[a].pregnant /\ ~st.animals[a].fertile)
           THEN [st EXCEPT !.failure = "AssertionError"]
           ELSE LET s1 == Animal_spawn(st, a, time, gender, lifespan)
                    s2 == IF s1.failure # "" THEN s1
                          ELSE [s1 EXCEPT !.herds[s1.animals[a].herd] = Append(@, Len(s1.animals)),
                                          !.animals[a].nursing = TRUE]
                IN schedule(s2, time + NursingPeriod, "LIV_FERTILE", Animal(a))
      ELSE IF event = "LIV_FERTILE"
      THEN IF st.animals[a].pregnant
           THEN [st EXCEPT !.failure = "AssertionError"]
           ELSE [st EXCEPT !.animals[a].nursing = FALSE, !.animals[a].fertile = TRUE]
      ELSE [st EXCEPT !.failure = "exit"]
  IN Once({Body(x) : x \in {st0}})

\* Animal.handle_event(time, event)
Animal_handle_event(st0, a, time, event, gender, lifespan) ==
  LET Body(st) ==
      IF event = "LIV_BIRTH"
      THEN IF ~(st.animals[a].pregnant /\ ~st.animals[a].fertile)
           THEN [st EXCEPT !.failure = "AssertionError"]
           ELSE LET s1 == Animal_spawn(st, a, time, gender, lifespan)
                    s2 == IF s1.failure # "" THEN s1
                          ELSE [s1 EXCEPT !.herds[s1.animals[a].herd] = Append(@, Len(s1.animals)),
                                          !.animals[a].pregnant = FALSE,
                                          !.animals[a].nursing = TRUE]
                IN schedule(s2, time + NursingPeriod, "LIV_FERTILE", Animal(a))
      ELSE IF event = "LIV_FERTILE"
      THEN IF st.animals[a].pregnant
           THEN [st EXCEPT !.failure = "AssertionError"]
           ELSE [st EXCEPT !.animals[a].nursing = FALSE, !.animals[a].fertile = TRUE]
      ELSE [st EXCEPT !.failure = "exit"]
  IN Once({Body(x) : x \in {st0}})

\* Herd.step, step 2: the loop over the breedable females; willing holds the
\* animals whose random draw falls below the breeding probability.
RECURSIVE breed_each(_, _, _, _)
breed_each(st0, b_females, time, willing) ==
  LET Body(st) ==
      IF b_females = <<>> THEN st
      ELSE LET b_female == Head(b_females) IN
           breed_each(IF st.animals[b_female].health >= MinBreedHealth /\ b_female \in willing
                      THEN Animal_breed(st, b_female, time)
                      ELSE st,
                      Tail(b_females), time, willing)
  IN Once({Body(x) : x \in {st0}})

\* Herd.step, step 3: a death is recorded for every animal of the cull set,
\* and then each of them is culled.
RECURSIVE record_each(_, _, _, _)
record_each(st0, list, cause, day) ==
  LET Body(st) ==
      IF list = <<>> THEN st
      ELSE record_each(record_death(st, cause, day), Tail(list), cause, day)
  IN Once({Body(x) : x \in {st0}})

RECURSIVE cull_each(_, _)
cull_each(st0, list) ==
  LET Body(st) ==
      IF list = <<>> THEN st ELSE cull_each(Herd_cull(st, Head(list)), Tail(list))
  IN Once({Body(x) : x \in {st0}})

\* Herd.step(time)
Herd_step(st0, h, time, willing) ==
  LET Body(st) ==
      LET IsMale(a) == st.animals[a].gender = "MALE"
          can_breed(a) == st.animals[a].gender = "FEMALE" /\ st.animals[a].fertile
          males == SelectSeq(st.herds[h], IsMale)
          b_females == SelectSeq(st.herds[h], can_breed)
          s1 == IF Len(males) > 0 /\ Len(b_females) > 0
                THEN breed_each(st, b_females, time, willing)
                ELSE st
          Unhealthy(a) == s1.animals[a].health <= 0
          cull_set == SelectSeq(s1.herds[h], Unhealthy)
      IN cull_each(record_each(s1, cull_set, "health", time), cull_set)
  IN Once({Body(x) : x \in {st0}})

\* Herd.feed(units, time_period), where units is the herd's share of what
\* GridSpace.forage obtained: frac_avail is then the fraction of the food the
\* cell's animals require that the cell yields, min(cell_area * veg_capacity /
\* food_required, 1.0), which is 0 on a bare cell and 1 on a cell with enough.
Herd_feed(st0, h, frac_avail, time_period) ==
  LET Body(st) ==
      LET h_inc == HealthFed * frac_avail * time_period
          h_dec == HealthStarve * (1 - frac_avail) * time_period
          clamp(x) == IF x < 0 THEN 0 ELSE IF x > InitialHealth THEN InitialHealth ELSE x
      IN IF st.failure # "" \/ Len(st.herds[h]) < 1 THEN st
         ELSE [st EXCEPT !.animals =
                 [a \in DOMAIN st.animals |->
                    IF InList(a, st.herds[h])
                    THEN [st.animals[a] EXCEPT !.health = clamp(@ + h_inc - h_dec)]
                    ELSE st.animals[a]]]
  IN Once({Body(x) : x \in {st0}})

\* Herd.immunize(disease, time), with Animal.immunize: the loop over the
\* herd's animals; delay[a] is the wear-off period sampled for animal a.
\* Every animal of the list has an entry for the disease in its diseases
\* dictionary: animal.diseases[disease] raises KeyError otherwise.
HasState(st0, list, disease) ==
  \E st \in {st0} :
    \A k \in 1..Len(list) : disease \in DOMAIN st.animals[list[k]].diseases

RECURSIVE immunize_each(_, _, _, _, _)
immunize_each(st0, list, disease, time, delay) ==
  LET Body(st) ==
      IF list = <<>> \/ st.failure # "" THEN st
      ELSE IF disease \notin DOMAIN st.animals[Head(list)].diseases
      THEN [st EXCEPT !.failure = "KeyError"]
      ELSE LET a == Head(list)
               dstate == st.animals[a].diseases[disease]
           IN immunize_each(
                IF dstate = "S" \/ dstate = "R"
                THEN schedule([st EXCEPT !.animals[a].diseases[disease] = "V"],
                              time + delay[a], "WEAROFF", Wearoff(disease, a))
                ELSE st,
                Tail(list), disease, time, delay)
  IN Once({Body(x) : x \in {st0}})

Herd_immunize(st0, h, disease, time, delay) ==
  LET Body(st) ==
      immunize_each(st, st.herds[h], disease, time, delay)
  IN Once({Body(x) : x \in {st0}})

\* Disease.step(herds, time), step 2: the loops over the four partitions,
\* which were taken before any transition; part[a] is the compartment animal
\* a was in then.  draw[a] is the animal's random draw: 0 when it falls
\* below the first probability it is compared with (p_si, p_id, p_rs or
\* p_vs), 1 when it falls below p_id + p_ir though not below p_id, 2 when it
\* falls below neither.  infectious: p_si > 0, some animal is infected.
RECURSIVE transition_each(_, _, _, _, _, _, _)
transition_each(st0, list, part, disease, day, draw, infectious) ==
  LET Body(st) ==
      IF list = <<>> \/ st.failure # "" THEN st
      ELSE LET a == Head(list)
               s1 == CASE part[a] = "S" /\ infectious /\ draw[a] = 0 ->
                            [st EXCEPT !.animals[a].diseases[disease] = "I"]
                       [] part[a] = "I" /\ draw[a] = 0 ->
                            Herd_cull(record_death(st, disease, day), a)
                       [] part[a] = "I" /\ draw[a] = 1 ->
                            [st EXCEPT !.animals[a].diseases[disease] = "R"]
                       [] part[a] = "R" /\ draw[a] = 0 ->
                            [st EXCEPT !.animals[a].diseases[disease] = "S"]
                       [] part[a] = "V" /\ draw[a] = 0 ->
                            [st EXCEPT !.animals[a].diseases[disease] = "S"]
                       [] OTHER -> st
           IN transition_each(s1, Tail(list), part, disease, day, draw, infectious)
  IN Once({Body(x) : x \in {st0}})

\* The animals of a list of herds, herd after herd.
RECURSIVE animals_of(_, _)
animals_of(st0, hs) ==
  LET Body(st) ==
      IF hs = <<>> THEN <<>> ELSE st.herds[Head(hs)] \o animals_of(st, Tail(hs))
  IN Once({Body(x) : x \in {st0}})

\* Disease.step(herds, time), for a disease whose probabilities are all
\* positive: the animals are visited compartment by compartment (s, i, r, v).
Disease_step(st0, hs, disease, day, draw) ==
  LET Body(st) ==
      LET all == animals_of(st, hs)
          part == [a \in Range(all) |-> st.animals[a].diseases[disease]]
          InS(a) == part[a] = "S"
          InI(a) == part[a] = "I"
          InR(a) == part[a] = "R"
          InV(a) == part[a] = "V"
          s == SelectSeq(all, InS)
          i == SelectSeq(all, InI)
          r == SelectSeq(all, InR)
          v == SelectSeq(all, InV)
      IN IF ~HasState(st, all, disease)
         THEN [st EXCEPT !.failure = "KeyError"]
         ELSE transition_each(st, s \o i \o r \o v, part, disease, day, draw, Len(i) > 0)
  IN Once({Body(x) : x \in {st0}})

\* World.step, lines 358-383, for one live cell: the herds of its residents
\* are fed and every disease steps.  (One disease is registered.)
RECURSIVE feed_each(_, _, _, _)
feed_each(st0, hs, frac_avail, dt) ==
  LET Body(st) ==
      IF hs = <<>> THEN st
      ELSE feed_each(Herd_feed(st, Head(hs), frac_avail, dt), Tail(hs), frac_avail, dt)
  IN Once({Body(x) : x \in {st0}})

RECURSIVE n_animals_of(_, _)
n_animals_of(st0, hs) ==
  LET Body(st) ==
      IF hs = <<>> THEN 0 ELSE Len(st.herds[Head(hs)]) + n_animals_of(st, Tail(hs))
  IN Once({Body(x) : x \in {st0}})

step_cell(st0, residents, veg, dt, day, draw) ==
  LET Body(st) ==
      LET IsHerdsman(agent) == agent \in Herdsmen
          hs == SelectSeq(residents, IsHerdsman)
          disease == CHOOSE d \in RunDiseases : TRUE
      IN IF st.failure # "" \/ Len(hs) = 0 \/ n_animals_of(st, hs) = 0 THEN st
         ELSE IF veg = NoCapacity THEN [st EXCEPT !.failure = "TypeError"]
         ELSE Disease_step(feed_each(st, hs, veg, dt), hs, disease, day, draw)
  IN Once({Body(x) : x \in {st0}})

\* World.step, the loop over the live cells.
RECURSIVE step_cells(_, _, _, _, _, _, _)
step_cells(st0, g, cells, veg, dt, day, draw) ==
  LET Body(st) ==
      IF cells = {} THEN st
      ELSE LET c == CHOOSE x \in cells : TRUE IN
           step_cells(step_cell(st, g[c].residents, veg, dt, day, draw),
                      g, cells \ {c}, veg, dt, day, draw)
  IN Once({Body(x) : x \in {st0}})

(***************************************************************************)
(* Initialization (initialize.py 148-261, driver.py 62-121).               *)
(***************************************************************************)
\* What the random draws of initialize_objects decide for one animal: its
\* gender, whether a female is past the maturity age, and the days it has
\* left to live.  No animal starts vaccinated (pct_vaccinated is 0 for the
\* diseases it names), so that every animal starts susceptible to these.
AnimalSetups ==
  {c \in [gender : {"MALE", "FEMALE"}, mature : BOOLEAN, remaining : Lifespans] :
     c.gender = "MALE" => ~c.mature}

\* initialize_objects, lines 192-261: the loop that creates the animals,
\* all in the herd of the one herdsman.
RECURSIVE create_animals(_, _, _, _)
create_animals(st0, setups, start, pct_vaccinated) ==
  LET Body(st) ==
      IF setups = <<>> THEN st
      ELSE LET c == Head(setups)
               id == Len(st.animals) + 1
               owner == CHOOSE h \in Herdsmen : TRUE
               age == IF c.mature THEN Maturity ELSE 0
               a0 == NewAnimal(c.gender, start - age, owner)
               a1 == [a0 EXCEPT !.fertile = (c.gender = "FEMALE" /\ c.mature)]
               a2 == [a1 EXCEPT !.diseases = [d \in pct_vaccinated |-> "S"]]
               s1 == schedule([st EXCEPT !.animals = Append(@, a0)],
                              start + c.remaining, "CULL_OLDAGE", Animal(id))
               s2 == IF c.gender = "FEMALE" /\ ~c.mature
                     THEN schedule(s1, start + Maturity, "LIV_FERTILE", Animal(id))
                     ELSE s1
               s4 == [s2 EXCEPT !.animals[id] = a2, !.herds[owner] = Append(@, id)]
           IN create_animals(s4, Tail(setups), start, pct_vaccinated)
  IN Once({Body(x) : x \in {st0}})

RECURSIVE enumerate_step_events_before_end(_, _, _)
enumerate_step_events_before_end(cur, stepsize, end_date) ==
  IF cur < end_date
  THEN <<<<cur, "WORLDSTEP">>, <<cur, "AGENTSTEP">>>>
         \o enumerate_step_events_before_end(cur + stepsize, stepsize, end_date)
  ELSE <<>>

\* Time.enumerate_step_events(end_date)
RECURSIVE enumerate_step_events(_, _, _)
enumerate_step_events(cur, stepsize, end_date) ==
  IF cur <= end_date
  THEN <<<<cur, "WORLDSTEP">>, <<cur, "AGENTSTEP">>>>
         \o enumerate_step_events(cur + stepsize, stepsize, end_date)
  ELSE <<>>

\* driver.py 103-106: every enumerated step event is added, each followed
\* by an INFECTION event of the same date.
RECURSIVE load_step_events(_, _)
load_step_events(st0, list) ==
  LET Body(st) ==
      IF list = <<>> THEN st
      ELSE load_step_events(
             schedule(schedule(st, Head(list)[1], Head(list)[2], NoSubject),
                      Head(list)[1], "INFECTION", NoSubject),
             Tail(list))
  IN Once({Body(x) : x \in {st0}})

\* driver.py 114-115 and 118-121: one event of a kind at each of the dates.
RECURSIVE load_events(_, _, _)
load_events(st0, dates, event) ==
  LET Body(st) ==
      IF dates = {} THEN st
      ELSE LET d == CHOOSE x \in dates : \A y \in dates : x <= y IN
           load_events(schedule(st, d, event, NoSubject), dates \ {d}, event)
  IN Once({Body(x) : x \in {st0}})

\* The state the main loop starts from.  The run begins on day 0, within a
\* month, so that the only GIS update is that of the start date.  The head
\* of household starts with the decision -1 (prob_positive is 0).
DriverInitFor(pct_vaccinated) ==
  /\ lo_time = 0 /\ hi_time = EndDay
  /\ current_time = 0 /\ last_timestep = NoTime
  /\ time_call = [arg |-> 0, raised |-> NoEvent, before |-> 0]
  /\ exited = FALSE
  /\ grid = place_agent(set_cell(
                [c \in Cells |-> [residents |-> <<>>, cell |-> "GridSpace"]],
                <<0, 0>>, "Village"),
              [a \in Agents |-> NoCell], 1, <<0, 0>>).grid
  /\ location = [a \in Agents |-> IF a \in Herdsmen THEN <<0, 0>> ELSE NoCell]
  /\ live_cells = [none |-> TRUE, cells |-> {}]
  /\ world_call = [op |-> "place_agent", raised |-> ""]
  /\ nplaced = 1 /\ usage = "ok" /\ only_moves = TRUE
  /\ \E setups \in [1..NumAnimals -> AnimalSetups] :
       LET s0 == [animals |-> <<>>, herds |-> [h \in Herdsmen |-> <<>>], events |-> <<>>,
                  tracker |-> [deaths |-> [c \in DeathCauses |-> <<>>],
                               total_animals |-> NumAnimals],
                  failure |-> ""]
           s1 == create_animals(s0, setups, 0, pct_vaccinated)
           s2 == load_step_events(s1, enumerate_step_events(0, StepSize, EndDay))
           s3 == load_events(s2, {0}, "GISUPDATE")
           s4 == load_events(s3, VaccinationDays, "VACCINATE")
       IN \E st \in {s4} :
            /\ animals = st.animals /\ herds = st.herds /\ events = st.events
            /\ tracker = st.tracker /\ failure = st.failure
  /\ veg_capacity = NoCapacity
  /\ decision = [d \in RunDiseases |-> [decision |-> -1, last_decision |-> -1]]
  /\ dispatched = NoEvent
  /\ dispatch_count = EmptyBag

\* The run whose setup names every disease of the parameters under
\* pct_vaccinated.
DriverInit == DriverInitFor(RunDiseases)

(***************************************************************************)
(* The main loop (driver.py 124-204): one action for each kind of event,   *)
(* which pops the event, moves the clock to its date and runs the handler. *)
(***************************************************************************)
Popped == next_event(events)

Dispatching(event) ==
  /\ failure = "" /\ ~exited
  /\ Popped.result # NoEvent
  /\ Popped.result[2] = event

\* What a handler starts from: the event has been popped.
Before ==
  [animals |-> animals, herds |-> herds, events |-> Popped.events,
   tracker |-> tracker, failure |-> ""]

\* The end of an iteration: the objects are as the handler left them, unless
\* set_time raised before the handler ran.
Finish(st0, veg, dec, live, last, ex) ==
  \E st \in {st0}, e \in {Popped.result} :
  LET tm == set_time(current_time, e[1])
      ok == tm.raised = NoEvent
  IN /\ dispatched' = e
     /\ dispatch_count' = IF e[3] = NoSubject
                          THEN dispatch_count (+) SetToBag({<<e[1], e[2]>>})
                          ELSE dispatch_count
     /\ current_time' = tm.current_time
     /\ time_call' = [arg |-> e[1], raised |-> tm.raised, before |-> current_time]
     /\ events' = IF ok THEN st.events ELSE Popped.events
     /\ animals' = IF ok THEN st.animals ELSE animals
     /\ herds' = IF ok THEN st.herds ELSE herds
     /\ tracker' = IF ok THEN st.tracker ELSE tracker
     /\ failure' = IF ok THEN st.failure ELSE "TimeOrderViolation"
     /\ veg_capacity' = IF ok THEN veg ELSE veg_capacity
     /\ decision' = IF ok THEN dec ELSE decision
     /\ live_cells' = IF ok THEN live ELSE live_cells
     /\ last_timestep' = IF ok THEN last ELSE last_timestep
     /\ exited' = IF ok THEN ex ELSE exited
     /\ UNCHANGED <<lo_time, hi_time, call, ncalls, admitted, returned, drained, pvars,
                    grid, location, world_call, nplaced, usage, only_moves, nvars, gvars, fvars, mvars>>

\* The end of an iteration whose handler changes animals, herds, queue and
\* tracker only.
FinishLivestock(st) ==
  Finish(st, veg_capacity, decision, live_cells, last_timestep, exited)

\* The animals that are in a herd: those a handler's random draws are for.
Herded == UNION {Range(herds[h]) : h \in Herdsmen}

\* driver.py 132-134: world.update_gis gives the cell the month's capacity.
DispatchGISUPDATE ==
  /\ Dispatching("GISUPDATE")
  /\ \E veg \in VegLevels :
       Finish(Before, veg, decision, live_cells, last_timestep, exited)

\* driver.py 140-141: subject.handle_event(time, LIV_BIRTH)
DispatchLIV_BIRTH ==
  /\ Dispatching("LIV_BIRTH")
  /\ Len(animals) < MaxAnimals
  /\ \E gender \in {"MALE", "FEMALE"}, lifespan \in Lifespans :
       FinishLivestock(Animal_handle_event(Before, Popped.result[3].id, Popped.result[1],
                                           "LIV_BIRTH", gender, lifespan))

\* driver.py 143-144: subject.handle_event(time, LIV_FERTILE)
DispatchLIV_FERTILE ==
  /\ Dispatching("LIV_FERTILE")
  /\ FinishLivestock(Animal_handle_event(Before, Popped.result[3].id, Popped.result[1],
                                         "LIV_FERTILE", "MALE", 0))

\* driver.py 146-149: world.step(params, time)
DispatchWORLDSTEP ==
  /\ Dispatching("WORLDSTEP")
  /\ LET day == Popped.result[1]
         dt == current_step_duration(last_timestep, day)
         live == build_live_cells(grid, live_cells)
     IN IF dt = 0
        THEN Finish(Before, veg_capacity, decision, live_cells, last_timestep, TRUE)
        ELSE \E draw \in [Herded -> 0..2] :
               \E st \in {step_cells(Before, grid, live.cells, veg_capacity, dt, day, draw)} :
                 Finish(st, veg_capacity, decision, live,
                        IF st.failure = "" THEN day ELSE last_timestep, exited)

\* Herdsman.step(time): the herd steps; decide_move compares the cell's
\* veg_capacity with a threshold, and the village has no path to take.
Herdsman_step(st0, h, time, willing) ==
  LET Body(st) ==
      LET s1 == Herd_step(st, h, time, willing) IN
      IF s1.failure = "" /\ veg_capacity = NoCapacity
      THEN [s1 EXCEPT !.failure = "TypeError"]
      ELSE s1
  IN Once({Body(x) : x \in {st0}})

\* Tracker.record_herd(herd, time): it counts the vaccinated animals of the
\* herd for every disease, and appends to the tracker's time series.
record_herd(st0, h) ==
  LET Body(st) ==
      IF st.failure = "" /\ \E d \in RunDiseases : ~HasState(st, st.herds[h], d)
      THEN [st EXCEPT !.failure = "KeyError"]
      ELSE st
  IN Once({Body(x) : x \in {st0}})

\* driver.py 151-160: hoh.step (which does nothing), hmen.step, and the
\* records, which read the herds and write to the tracker's time series.
DispatchAGENTSTEP ==
  /\ Dispatching("AGENTSTEP")
  /\ \E willing \in SUBSET Herded :
       FinishLivestock(record_herd(Herdsman_step(Before, CHOOSE h \in Herdsmen : TRUE,
                                                 Popped.result[1], willing),
                                   CHOOSE h \in Herdsmen : TRUE))

\* driver.py 162-164: hoh.handle_event(time, VACCINATE).  The head of
\* household cycles its decision, draws the new one and, when it is 1, has
\* its herdsman immunize the herd.
DispatchVACCINATE ==
  /\ Dispatching("VACCINATE")
  /\ \E x \in {-1, 1}, delay \in [Herded -> WearoffDays] :
       LET disease == CHOOSE d \in RunDiseases : TRUE
           dec == [decision EXCEPT ![disease] =
                     [decision |-> x, last_decision |-> decision[disease].decision]]
           st == IF x = 1
                 THEN Herd_immunize(Before, CHOOSE h \in Herdsmen : TRUE, disease,
                                    Popped.result[1], delay)
                 ELSE Before
       IN Finish(st, veg_capacity, dec, live_cells, last_timestep, exited)

\* driver.py 166-171
DispatchCULL_OLDAGE ==
  /\ Dispatching("CULL_OLDAGE")
  /\ LET a == Popped.result[3].id IN
     FinishLivestock(IF animals[a].active
                     THEN Herd_cull(record_death(Before, "age", Popped.result[1]), a)
                     ELSE Before)

\* driver.py 173-179
DispatchWEAROFF ==
  /\ Dispatching("WEAROFF")
  /\ LET a == Popped.result[3].id
         disease == Popped.result[3].disease
     IN FinishLivestock(IF animals[a].active
                        THEN [Before EXCEPT !.animals[a].diseases =
                                set_disease_state(@, disease, "S")]
                        ELSE Before)

\* driver.py 181-197: target is 0 when the sample says no infection occurs,
\* and otherwise the position of the animal picked in the herd.
DispatchINFECTION ==
  /\ Dispatching("INFECTION")
  /\ LET h == CHOOSE x \in Herdsmen : TRUE
         disease == CHOOSE d \in RunDiseases : TRUE
     IN \E target \in 0..Len(herds[h]) :
          FinishLivestock(IF target = 0 THEN Before
                          ELSE [Before EXCEPT !.animals[herds[h][target]].diseases =
                                  set_disease_state(@, disease, "I")])

DriverNext ==
  \/ DispatchGISUPDATE
  \/ DispatchLIV_BIRTH
  \/ DispatchLIV_FERTILE
  \/ DispatchWORLDSTEP
  \/ DispatchAGENTSTEP
  \/ DispatchVACCINATE
  \/ DispatchCULL_OLDAGE
  \/ DispatchWEAROFF
  \/ DispatchINFECTION

SpecDriverInit == DriverInit /\ drained = <<>> /\ QueueIdle /\ PairIdle /\ NeighborIdle /\ GeoIdle /\ PureIdle /\ MoveIdle

SpecDriver == SpecDriverInit /\ [][DriverNext]_vars

\* The main loop is about to dispatch an event of one of the four kinds
\* whose subject is an animal, to an animal that is not active.
StaleDispatch ==
  /\ failure = "" /\ ~exited
  /\ Popped.result # NoEvent
  /\ Popped.result[2] \in {"CULL_OLDAGE", "WEAROFF", "LIV_BIRTH", "LIV_FERTILE"}
  /\ ~animals[Popped.result[3].id].active

\* C10: an event of kind CULL_OLDAGE, WEAROFF, LIV_BIRTH or LIV_FERTILE that
\* the driver dispatches to an animal whose active flag is false mutates
\* nothing: after the handler every animal has the fields it had, no animal
\* has been created, every herd has the members it had, and the queue holds
\* what the pop of the event left in it.
C10_StaleEventMutatesNothing ==
  [][StaleDispatch =>
       /\ animals' = animals
       /\ herds' = herds
       /\ events' = Popped.events]_vars

\* The dates of the periodic steps (Time.enumerate_step_events).
StepDates == {d \in 0..EndDay : d % StepSize = 0}

\* The number of events of a kind (one without a subject) dispatched so far
\* for a date.
Dispatches(day, event) == CopiesIn(<<day, event>>, dispatch_count)

\* C11: for each periodic step date the spontaneous infection is sampled
\* once: the main loop never dispatches a second INFECTION event for the
\* same step date, and when the run is over it has dispatched one for each.
C11_InfectionSampledOnce ==
  \A d \in StepDates :
    /\ Dispatches(d, "INFECTION") <= 1
    /\ (events = <<>> /\ failure = "" /\ ~exited) => Dispatches(d, "INFECTION") = 1

(***************************************************************************)
(* World.neighborhood (model/world.py): the cells around a position, and   *)
(* the cache of the lists computed.  The world of these calls has          *)
(* NbHeight rows and NbWidth columns.  A distance is kept as its square,   *)
(* which is exact on the integer grid: d <= r is d * d <= r * r.           *)
(***************************************************************************)
NbHeight   == 2   \* World.height of the world queried
NbWidth    == 2   \* World.width of the world queried
MaxRadius  == 2   \* neighborhood is called with r in 0..MaxRadius
MaxNbCalls == 3   \* neighborhood calls made on a world

NbCells == (0..(NbHeight - 1)) \X (0..(NbWidth - 1))
Radii == 0..MaxRadius

Max2(a, b) == IF a >= b THEN a ELSE b
Min2(a, b) == IF a <= b THEN a ELSE b

\* math.hypot(position[0] - i, position[1] - j), squared.
hypot2(position, c) ==
  (position[1] - c[1]) * (position[1] - c[1]) + (position[2] - c[2]) * (position[2] - c[2])

\* The order in which the two nested loops visit the cells: row by row.
RowMajorLT(c, d) == c[1] < d[1] \/ (c[1] = d[1] /\ c[2] < d[2])

\* The cells of a set, as the list the loops append them to.
RECURSIVE in_loop_order(_)
in_loop_order(S) ==
  IF S = {} THEN <<>>
  ELSE LET first == CHOOSE c \in S : \A d \in S \ {c} : RowMajorLT(c, d)
       IN <<first>> \o in_loop_order(S \ {first})

\* The rows np.arange(max(0, position[0]-r), min(self.height, position[0]+r))
\* runs over, and the columns likewise: the stop value is excluded.
arange_rows(position, r) == Max2(0, position[1] - r) .. (Min2(NbHeight, position[1] + r) - 1)
arange_cols(position, r) == Max2(0, position[2] - r) .. (Min2(NbWidth, position[2] + r) - 1)

\* The list the miss branch of World.neighborhood computes.
scan_neighbors(position, r) ==
  LET kept == {c \in arange_rows(position, r) \X arange_cols(position, r) :
                 /\ (c[1] # position[1] \/ c[2] # position[2])
                 /\ hypot2(position, c) <= r * r}
      order == in_loop_order(kept)
  IN [k \in 1..Len(order) |-> <<order[k], hypot2(position, order[k])>>]

\* World.neighborhood: the cache is looked up by position; a miss computes
\* the list and stores it under the position, a hit returns the stored list.
neighborhood(cache, position, r) ==
  IF position \notin DOMAIN cache
    THEN LET neighbors == scan_neighbors(position, r)
         IN [neighbor_cache |-> [p \in DOMAIN cache \cup {position} |->
                                   IF p = position THEN neighbors ELSE cache[p]],
             neighbors |-> neighbors]
    ELSE [neighbor_cache |-> cache, neighbors |-> cache[position]]

Neighborhood(position, r) ==
  /\ neighbor_call.n < MaxNbCalls
  /\ LET res == neighborhood(neighbor_cache, position, r)
     IN /\ neighbor_cache' = res.neighbor_cache
        /\ neighbor_call' = [n |-> neighbor_call.n + 1, position |-> position, r |-> r,
                             neighbors |-> res.neighbors]

NeighborNext ==
  \E position \in NbCells, r \in Radii :
    Neighborhood(position, r) /\ UNCHANGED <<qvars, pvars, tvars, wvars, dvars, gvars, fvars, mvars>>

SpecNeighborInit ==
  /\ NeighborIdle /\ GeoIdle /\ PureIdle /\ MoveIdle
  /\ events = <<>> /\ lo_time = NoTime /\ hi_time = NoTime /\ drained = <<>>
  /\ QueueIdle /\ PairIdle /\ TimeIdle /\ WorldInit /\ DriverIdle
SpecNeighbor == SpecNeighborInit /\ [][NeighborNext]_vars

\* The cells of the grid other than the position within distance r of it,
\* each with its distance.
CellsWithin(position, r) ==
  {<<c, hypot2(position, c)>> : c \in {d \in NbCells : d # position /\ hypot2(position, d) <= r * r}}

\* C12: the first neighborhood(position, r) call on a world returns exactly
\* the cells of the grid other than position whose Euclidean distance to
\* position is at most r, each paired with that distance.
C12_NeighborhoodIsDisc ==
  neighbor_call.n = 1 =>
    Range(neighbor_call.neighbors) = CellsWithin(neighbor_call.position, neighbor_call.r)

\* C13: the neighborhood cache is transparent: whatever calls came before,
\* a neighborhood(position, r) call returns what the computation without a
\* cache returns for that position and that radius.
C13_CacheTransparent ==
  neighbor_call.n >= 1 =>
    neighbor_call.neighbors = scan_neighbors(neighbor_call.position, neighbor_call.r)


(***************************************************************************)
(* World.nearest_cell (model/world.py) on the boundaries that              *)
(* initialize.boundaries computes from the cell centres                    *)
(* (model/initialize.py).  Coordinates are integers and the centres lie on *)
(* even ones, so that the midpoint (c1 + c2) / 2.0 of two centres is       *)
(* exact.                                                                  *)
(***************************************************************************)
MaxAxis  == 3   \* each axis of the grid has 2..MaxAxis cells
MaxCoord == 3   \* cell centres lie on the coordinates 0, 2, .., 2 * MaxCoord

CentreCoords == {2 * k : k \in 0..MaxCoord}
QueryCoords == (0 - 2)..(2 * MaxCoord + 2)

\* The strictly increasing lists of centres of one axis.
AxisCentres ==
  UNION {{c \in [1..n -> CentreCoords] : \A k \in 1..(n - 1) : c[k] < c[k + 1]} :
           n \in 2..MaxAxis}

\* initialize.boundaries(centers): the midpoints of neighbouring centres,
\* and at both ends the reflection of the nearest midpoint about the outer
\* centre.  The list has len(centers) + 1 entries.
boundaries(centers) ==
  LET n == Len(centers)
      mid(k) == (centers[k - 1] + centers[k]) \div 2
  IN [k \in 1..(n + 1) |->
        IF k = 1 THEN centers[1] - (mid(2) - centers[1])
        ELSE IF k = n + 1 THEN centers[n] + (centers[n] - mid(n))
        ELSE mid(k)]

\* The shape of a two-dimensional array indexed from (0, 0).
shape0(array) == Cardinality({c[1] : c \in DOMAIN array})
shape1(array) == Cardinality({c[2] : c \in DOMAIN array})

\* array[0, :] and array[:, 0].
first_row(array) == [k \in 1..shape1(array) |-> array[<<0, k - 1>>]]
first_col(array) == [k \in 1..shape0(array) |-> array[<<k - 1, 0>>]]

\* The while loop of nearest_cell over one list of boundaries (indexed
\* from 0 in the code, from 1 here).
RECURSIVE bisect_loop(_, _, _, _, _)
bisect_loop(x, bounds, lo, hi, idx) ==
  IF hi - lo > 1
    THEN LET below == x < bounds[idx + 1]
             hi2 == IF below THEN idx ELSE hi
             lo2 == IF below THEN lo ELSE idx
         IN bisect_loop(x, bounds, lo2, hi2, ((hi2 - lo2) \div 2) + lo2)
    ELSE idx

bisect(x, bounds) ==
  LET n == Len(bounds) IN bisect_loop(x, bounds, 0, n - 1, n \div 2)

nearest_cell_lat_first(lat_b, lon_b, fdl, latlon) ==
  <<bisect(latlon[1], lat_b), bisect(latlon[2], lon_b)>>

\* World.nearest_cell.
nearest_cell(lat_b, lon_b, fdl, latlon) ==
  LET lat_idx == bisect(latlon[1], lat_b)
      lon_idx == bisect(latlon[2], lon_b)
  IN IF fdl THEN <<lat_idx, lon_idx>> ELSE <<lon_idx, lat_idx>>

\* A grid aligned with the axes: the latitude varies along one index and
\* the longitude along the other (initialize.py 62-102).
GeoInit ==
  \E lats \in AxisCentres, lons \in AxisCentres, lat_first \in BOOLEAN :
    LET n0 == IF lat_first THEN Len(lats) ELSE Len(lons)
        n1 == IF lat_first THEN Len(lons) ELSE Len(lats)
        index == (0..(n0 - 1)) \X (0..(n1 - 1))
        lat_array == [c \in index |-> IF lat_first THEN lats[c[1] + 1] ELSE lats[c[2] + 1]]
        lon_array == [c \in index |-> IF lat_first THEN lons[c[2] + 1] ELSE lons[c[1] + 1]]
        fdl == lat_array[<<0, 0>>] = lat_array[<<0, 1>>]
    IN /\ cell_lat = lat_array
       /\ cell_lon = lon_array
       /\ first_dim_lat = fdl
       /\ lat_boundaries = IF ~fdl THEN boundaries(first_row(lat_array))
                                   ELSE boundaries(first_col(lat_array))
       /\ lon_boundaries = IF ~fdl THEN boundaries(first_col(lon_array))
                                   ELSE boundaries(first_row(lon_array))
       /\ nearest_call = [n |-> 0, latlon |-> <<>>, result |-> <<>>]

\* nearest_cell changes nothing in the world, so one call on each world
\* shows every result it can give.
NearestCell(latlon) ==
  /\ nearest_call.n = 0
  /\ nearest_call' = [n |-> 1, latlon |-> latlon,
                      result |-> nearest_cell(lat_boundaries, lon_boundaries,
                                              first_dim_lat, latlon)]
  /\ UNCHANGED <<cell_lat, cell_lon, first_dim_lat, lat_boundaries, lon_boundaries>>

NearestNext ==
  \E latlon \in QueryCoords \X QueryCoords :
    NearestCell(latlon) /\ UNCHANGED <<qvars, pvars, tvars, wvars, dvars, nvars, fvars, mvars>>

SpecNearestInit ==
  /\ GeoInit
  /\ events = <<>> /\ lo_time = NoTime /\ hi_time = NoTime /\ drained = <<>>
  /\ QueueIdle /\ PairIdle /\ TimeIdle /\ WorldInit /\ DriverIdle /\ NeighborIdle /\ PureIdle /\ MoveIdle
SpecNearest == SpecNearestInit /\ [][NearestNext]_vars

\* The squared distance of a point to the centre of a cell.
dist2(latlon, c) ==
  (latlon[1] - cell_lat[c]) * (latlon[1] - cell_lat[c])
    + (latlon[2] - cell_lon[c]) * (latlon[2] - cell_lon[c])

\* The latitudes and longitudes the cell centres span.
InExtent(latlon) ==
  /\ \E c \in DOMAIN cell_lat : cell_lat[c] <= latlon[1]
  /\ \E c \in DOMAIN cell_lat : cell_lat[c] >= latlon[1]
  /\ \E c \in DOMAIN cell_lon : cell_lon[c] <= latlon[2]
  /\ \E c \in DOMAIN cell_lon : cell_lon[c] >= latlon[2]

\* C14: on an axis-aligned grid with at least two cells on each axis,
\* strictly increasing centres and the boundaries of initialize.boundaries,
\* nearest_cell(lat, lon) returns a cell that a search of all the cells for
\* the least distance to (lat, lon) can return: no cell is closer.
C14_NearestCellIsNearest ==
  nearest_call.n = 1 =>
    /\ nearest_call.result \in DOMAIN cell_lat
    /\ \A c \in DOMAIN cell_lat :
         dist2(nearest_call.latlon, nearest_call.result) <= dist2(nearest_call.latlon, c)

\* A query outside the extent of a grid that is not square and whose first
\* index is the longitude has been answered.
C14_Witness ==
  /\ nearest_call.n = 1
  /\ ~InExtent(nearest_call.latlon)
  /\ ~first_dim_lat
  /\ shape0(cell_lat) # shape1(cell_lat)
  /\ nearest_call.result \in DOMAIN cell_lat


\* The agent has a location, and the resident list of the cell the location
\* names does not hold the agent.
NotResident(agent) ==
  /\ location[agent] # NoCell
  /\ ~InList(agent, grid[location[agent]].residents)

\* C15: a World.move call for an agent that is not in the resident list of
\* the cell its location names raises, and leaves every resident list, the
\* live-cell index and every agent's location as they were.
C15_MoveOfNonResidentRaises ==
  [][\A a \in Agents, c \in Cells :
       (NotResident(a) /\ Move(a, c)) =>
         /\ world_call'.raised # ""
         /\ grid' = grid
         /\ live_cells' = live_cells
         /\ location' = location]_vars

\* A move has raised the exception of list.remove on a world all of whose
\* agents have a location: the agent moved was not a resident of its cell.
C15_Witness ==
  /\ world_call = [op |-> "move", raised |-> "ValueError"]
  /\ \A a \in Agents : location[a] # NoCell
  /\ \E a \in Agents : NotResident(a)


\* The dates of the WORLDSTEP events whose World.step call has returned:
\* those dispatched, but for one that ended the run in its handler.
StepDoneDates ==
  {d \in 0..EndDay :
     /\ Dispatches(d, "WORLDSTEP") > 0
     /\ ~(dispatched = <<d, "WORLDSTEP", NoSubject>> /\ (failure # "" \/ exited))}

\* The date of the last World.step call that has returned.
LastStepDone == CHOOSE d \in StepDoneDates : \A e \in StepDoneDates : e <= d

\* C16: the last-step marker is None until a World.step call has returned and
\* from then on is the date of the last such call, whatever set_time calls
\* have moved the clock since; so current_step_duration returns the default
\* step size before the first world advance, and afterwards the days from
\* the last World.step date to current_time.
C16_StepDurationFromLastStep ==
  IF StepDoneDates = {}
  THEN /\ last_timestep = NoTime
       /\ current_step_duration(last_timestep, current_time) = StepSize
  ELSE /\ last_timestep = LastStepDone
       /\ current_step_duration(last_timestep, current_time) = current_time - LastStepDone

\* After a World.step call has returned, set_time has moved the clock on.
C16_Witness ==
  /\ StepDoneDates # {}
  /\ current_time > LastStepDone
  /\ dispatched[2] # "WORLDSTEP"
  /\ failure = ""


\* The animals an event can name.
AnimalIds == 1..Len(animals)

\* C17: the dispatch of a CULL_OLDAGE event for an active animal appends one
\* death to the tracker's list for the cause "age" and none to another
\* list, removes the animal from its herd and from no other, and clears the
\* animal's active flag; for an animal that is not active it records no
\* death and changes no herd.  Once cleared, an active flag stays cleared.
C17_OldAgeCull ==
  [][/\ Dispatching("CULL_OLDAGE") =>
          LET a == Popped.result[3].id
              h == animals[a].herd
          IN IF animals[a].active
             THEN /\ tracker'.deaths =
                       [tracker.deaths EXCEPT !["age"] = Append(@, Popped.result[1])]
                  /\ InList(a, herds[h])
                  /\ herds' = [herds EXCEPT ![h] = ListRemove(@, a)]
                  /\ ~InList(a, herds'[h])
                  /\ ~animals'[a].active
                  /\ failure' = ""
             ELSE /\ tracker'.deaths = tracker.deaths
                  /\ herds' = herds
     /\ \A a \in AnimalIds : ~animals[a].active => ~animals'[a].active]_vars

\* The only death recorded is one of old age, and the animal of the
\* CULL_OLDAGE event just dispatched is no longer active.
C17_Witness ==
  /\ dispatched # NoEvent
  /\ dispatched[2] = "CULL_OLDAGE"
  /\ ~animals[dispatched[3].id].active
  /\ \A h \in Herdsmen : ~InList(dispatched[3].id, herds[h])
  /\ tracker.deaths = [c \in DeathCauses |-> IF c = "age" THEN <<dispatched[1]>> ELSE <<>>]


C19_FertileExcludesPregnantAndNursing ==
  \A a \in AnimalIds :
    animals[a].fertile => (~animals[a].pregnant /\ ~animals[a].nursing)

\* An animal of the initial herd that has given birth and nursed is fertile
\* again: its LIV_FERTILE event came a gestation and a nursing period after
\* the start at the earliest.
C19_Witness ==
  /\ dispatched # NoEvent
  /\ dispatched[2] = "LIV_FERTILE"
  /\ dispatched[1] >= GestationPeriod + NursingPeriod
  /\ dispatched[3].id <= NumAnimals
  /\ failure = ""
  /\ Len(animals) > NumAnimals
  /\ animals[dispatched[3].id].fertile


\* The females that were not fertile when they were created: the offspring,
\* and the animals of the initial herd younger than the maturity age.
BornImmature == {a \in AnimalIds : /\ animals[a].gender = "FEMALE"
                                   /\ animals[a].birthday + Maturity > lo_time}

\* The event that makes an animal fertile at its maturity age.
MaturityEvent(a) == <<animals[a].birthday + Maturity, "LIV_FERTILE", Animal(a)>>

\* The number of entries of the queue's array equal to an event.
Queued(e) == Cardinality({i \in 1..Len(events) : events[i] = e})

\* C20: for a female that was not fertile at creation and whose maturity
\* date, its birth date plus the maturity age, lies within the queue's
\* bounds, one LIV_FERTILE event for that date is scheduled: the queue holds
\* it once until the clock reaches the date and never more than once, and
\* right after its dispatch the queue holds it no longer, the animal is
\* fertile and it is not nursing.
C20_MaturityScheduledOnce ==
  \A a \in BornImmature :
    LET e == MaturityEvent(a) IN
    (e[1] >= lo_time /\ e[1] <= hi_time) =>
      /\ Queued(e) <= 1
      /\ current_time < e[1] => Queued(e) = 1
      /\ (dispatched = e /\ failure = "") =>
           /\ Queued(e) = 0
           /\ animals[a].fertile
           /\ ~animals[a].nursing

\* The maturity event of an offspring born in the run has been dispatched.
C20_Witness ==
  /\ dispatched # NoEvent
  /\ dispatched[2] = "LIV_FERTILE"
  /\ failure = ""
  /\ dispatched[3].id > NumAnimals
  /\ dispatched[3].id \in BornImmature
  /\ dispatched = MaturityEvent(dispatched[3].id)
  /\ animals[dispatched[3].id].fertile


(***************************************************************************)
(* Disease.step (model/disease.py) with the probabilities of the           *)
(* parameters and the draws of rand.rand() as numbers.  A probability is a *)
(* multiple of 1 / ProbDen and a draw a multiple of 1 / RandDen in [0, 1), *)
(* so that a comparison draw < p * dt / timefactor is one of integers.     *)
(***************************************************************************)
ProbDen == 2    \* the parameters p_si, p_ir, p_id, p_rs, p_vs are halves
RandDen == 2    \* rand.rand() returns 0 or 1/2

\* model_params['disease'][name] and model_params['model']['disease_timefactor'];
\* a negative p_vs is the setting that suppresses the V -> S transition.
DiseaseParams ==
  [p_si : {0, 1, 2}, p_ir : {0, 1}, p_id : {0, 1, 2}, p_rs : {0, 2}, p_vs : {0 - 1, 2},
   disease_timefactor : {1, 2}]

\* time.current_step_duration()
StepDurations == {0, 1, 2}

Rands == 0..(RandDen - 1)

\* x / RandDen < (num / ProbDen) * dt / timefactor, for a positive timefactor
scaled_lt(x, num, dt, timefactor) == x * ProbDen * timefactor < num * dt * RandDen

infect_lt_unscaled(x, p_si, n_i, popsize, dt, timefactor) ==
  popsize > 0 /\ x * ProbDen * popsize < p_si * n_i * RandDen

\* rand.rand() < p_si, after p_si = p_si * len(i) / popsize * dt / timefactor
\* (0.0 for an empty population)
infect_lt(x, p_si, n_i, popsize, dt, timefactor) ==
  popsize > 0 /\ x * ProbDen * popsize * timefactor < p_si * n_i * dt * RandDen

infected_outcome_recovery_first(x, p_ir, p_id, dt, timefactor) ==
  IF scaled_lt(x, p_ir + p_id, dt, timefactor)
  THEN IF scaled_lt(x, p_ir, dt, timefactor) THEN "R" ELSE "dead"
  ELSE "I"

\* disease.py 140-150: what the draw decides for an infected animal
infected_outcome(x, p_ir, p_id, dt, timefactor) ==
  IF scaled_lt(x, p_ir + p_id, dt, timefactor)
  THEN IF scaled_lt(x, p_id, dt, timefactor) THEN "dead" ELSE "R"
  ELSE "I"

wears_off_unsigned(x, p_vs, dt, timefactor) ==
  scaled_lt(x, IF p_vs < 0 THEN 0 - p_vs ELSE p_vs, dt, timefactor)

\* disease.py 158-161: the V -> S transition is considered for a positive
\* scaled p_vs only
wears_off(x, p_vs, dt, timefactor) ==
  p_vs * dt > 0 /\ scaled_lt(x, p_vs, dt, timefactor)

\* disease.py 135-161: the four loops, over the lists taken before any
\* transition; part[a] is the compartment animal a was in then.
RECURSIVE sample_each(_, _, _, _, _, _, _, _, _, _)
sample_each(st0, list, part, disease, day, p, dt, rand, n_i, popsize) ==
  LET Body(st) ==
      IF list = <<>> \/ st.failure # "" THEN st
      ELSE LET a == Head(list)
               tf == p.disease_timefactor
               outcome == infected_outcome(rand[a], p.p_ir, p.p_id, dt, tf)
               s1 == CASE part[a] = "S" /\ infect_lt(rand[a], p.p_si, n_i, popsize, dt, tf) ->
                            [st EXCEPT !.animals[a].diseases[disease] = "I"]
                       [] part[a] = "I" /\ outcome = "dead" ->
                            Herd_cull(record_death(st, disease, day), a)
                       [] part[a] = "I" /\ outcome = "R" ->
                            [st EXCEPT !.animals[a].diseases[disease] = "R"]
                       [] part[a] = "R" /\ scaled_lt(rand[a], p.p_rs, dt, tf) ->
                            [st EXCEPT !.animals[a].diseases[disease] = "S"]
                       [] part[a] = "V" /\ wears_off(rand[a], p.p_vs, dt, tf) ->
                            [st EXCEPT !.animals[a].diseases[disease] = "S"]
                       [] OTHER -> st
           IN sample_each(s1, Tail(list), part, disease, day, p, dt, rand, n_i, popsize)
  IN Once({Body(x) : x \in {st0}})

\* Disease.step(herds, time)
Disease_step_sampled(st0, hs, disease, day, p, dt, rand) ==
  LET Body(st) ==
      LET all == animals_of(st, hs)
          part == [a \in DOMAIN st.animals |-> st.animals[a].diseases[disease]]
          InS(a) == part[a] = "S"
          InI(a) == part[a] = "I"
          InR(a) == part[a] = "R"
          InV(a) == part[a] = "V"
          s == SelectSeq(all, InS)
          i == SelectSeq(all, InI)
          r == SelectSeq(all, InR)
          v == SelectSeq(all, InV)
          popsize == Len(s) + Len(i) + Len(r) + Len(v)
      IN sample_each(st, s \o i \o r \o v, part, disease, day, p, dt, rand, Len(i), popsize)
  IN Once({Body(x) : x \in {st0}})

\* The disease of the run.
TheDisease == CHOOSE d \in RunDiseases : TRUE

\* A herd of NumAnimals animals, each in one of the four compartments, and
\* a Disease object with its parameters.
DiseaseInit ==
  \E comp \in [1..NumAnimals -> {"S", "I", "R", "V"}], p \in DiseaseParams :
    /\ animals = [a \in 1..NumAnimals |->
                    [NewAnimal("FEMALE", 0, CHOOSE h \in Herdsmen : TRUE) EXCEPT
                       !.diseases = set_disease_state(@, TheDisease, comp[a])]]
    /\ herds = [h \in Herdsmen |-> [a \in 1..NumAnimals |-> a]]
    /\ tracker = [deaths |-> [c \in DeathCauses |-> <<>>], total_animals |-> NumAnimals]
    /\ veg_capacity = NoTime /\ decision = <<>>
    /\ failure = "" /\ dispatched = NoEvent /\ dispatch_count = EmptyBag
    /\ pure_call = [op |-> "Disease.__init__", model_params |-> p]

\* One call disease.step(herds, time) on the herd: dt is the step duration
\* the clock reports and rand[a] the draw made for animal a.
DiseaseStep(dt, rand) ==
  /\ pure_call.op = "Disease.__init__"
  /\ \E st \in {Disease_step_sampled([animals |-> animals, herds |-> herds, events |-> events,
                                      tracker |-> tracker, failure |-> ""],
                                     <<CHOOSE h \in Herdsmen : TRUE>>, TheDisease,
                                     current_time, pure_call.model_params, dt, rand)} :
       /\ animals' = st.animals
       /\ herds' = st.herds
       /\ tracker' = st.tracker
       /\ failure' = st.failure
  /\ pure_call' = [op |-> "Disease.step", model_params |-> pure_call.model_params,
                   before |-> animals, dt |-> dt, rand |-> rand]
  /\ UNCHANGED <<veg_capacity, decision, dispatched, dispatch_count>>

DiseaseNext ==
  \E dt \in StepDurations, rand \in [1..NumAnimals -> Rands] :
    DiseaseStep(dt, rand) /\ UNCHANGED <<qvars, pvars, tvars, wvars, nvars, gvars, mvars>>

SpecDiseaseInit ==
  /\ DiseaseInit
  /\ events = <<>> /\ lo_time = NoTime /\ hi_time = NoTime /\ drained = <<>>
  /\ QueueIdle /\ PairIdle /\ TimeIdle /\ WorldInit /\ NeighborIdle /\ GeoIdle /\ MoveIdle
SpecDisease == SpecDiseaseInit /\ [][DiseaseNext]_vars

\* The compartment an animal was in when the step began, and is in now.
Was(a) == pure_call.before[a].diseases[TheDisease]
IsNow(a) == animals[a].diseases[TheDisease]

\* The step's p_si, after the scaling by the infected share of the
\* population, the step duration and the time factor, is 1.0.
InfectionCertain ==
  LET p == pure_call.model_params
      n_i == Cardinality({a \in 1..NumAnimals : Was(a) = "I"})
  IN p.p_si * n_i * pure_call.dt = ProbDen * NumAnimals * p.disease_timefactor

\* C21: after a Disease.step whose infection probability, the value the
\* draws of the susceptible animals are compared with, is 1.0, every animal
\* that was Susceptible when the step began is Infected.
C21_CertainInfection ==
  (pure_call.op = "Disease.step" /\ InfectionCertain) =>
    \A a \in 1..NumAnimals : Was(a) = "S" => (IsNow(a) = "I" /\ animals[a].active)

\* A susceptible animal with the largest draw has gone through a step whose
\* infection probability is 1.0.
C21_Witness ==
  /\ pure_call.op = "Disease.step"
  /\ InfectionCertain
  /\ \E a \in 1..NumAnimals : Was(a) = "S" /\ pure_call.rand[a] = RandDen - 1 /\ IsNow(a) = "I"


\* C22: after a Disease.step of a disease whose configured p_vs is negative,
\* every animal that was Vaccinated when the step began is Vaccinated, for
\* every step duration and every draw.
C22_NoWearoffInStep ==
  (pure_call.op = "Disease.step" /\ pure_call.model_params.p_vs < 0) =>
    \A a \in 1..NumAnimals : Was(a) = "V" => (IsNow(a) = "V" /\ animals[a].active)

\* A vaccinated animal with the smallest draw has gone through a step of
\* positive duration of a disease with a negative p_vs.
C22_Witness ==
  /\ pure_call.op = "Disease.step"
  /\ pure_call.model_params.p_vs < 0
  /\ pure_call.dt > 0
  /\ \E a \in 1..NumAnimals : Was(a) = "V" /\ pure_call.rand[a] = 0 /\ IsNow(a) = "V"

\* The draw of animal a is below the probability num / ProbDen, scaled by
\* the step duration and the time factor.
DrawBelow(a, num) ==
  pure_call.rand[a] * ProbDen * pure_call.model_params.disease_timefactor
    < num * pure_call.dt * RandDen

\* The animals that were Infected when the step began and whose draw is
\* below p_id.
Killed ==
  {a \in 1..NumAnimals : Was(a) = "I" /\ DrawBelow(a, pure_call.model_params.p_id)}

\* C23: in a Disease.step an animal that was Infected when the step began
\* dies when its draw p is below p_id: it leaves its herd and is no longer
\* active, and one death is recorded under the name of the disease;
\* otherwise it is Recovered when p is below p_id + p_ir, and otherwise it
\* is still Infected.  An animal that was Susceptible when the step began
\* is alive and Susceptible or Infected: it is not sampled for death or
\* recovery in the step that infects it.
C23_InfectedSampledOnce ==
  pure_call.op = "Disease.step" =>
    LET p == pure_call.model_params IN
    /\ \A a \in 1..NumAnimals :
         Was(a) = "I" =>
           IF a \in Killed
           THEN /\ ~animals[a].active
                /\ \A h \in Herdsmen : ~InList(a, herds[h])
           ELSE /\ animals[a].active
                /\ InList(a, herds[animals[a].herd])
                /\ IsNow(a) = (IF DrawBelow(a, p.p_id + p.p_ir) THEN "R" ELSE "I")
    /\ Len(tracker.deaths[TheDisease]) = Cardinality(Killed)
    /\ \A c \in DeathCauses \ {TheDisease} : tracker.deaths[c] = <<>>
    /\ \A a \in 1..NumAnimals :
         Was(a) = "S" => (animals[a].active /\ IsNow(a) \in {"S", "I"})

\* In one step an infected animal has died, another animal has been
\* infected, and the infected animal's death is the only one recorded.
C23_Witness ==
  /\ pure_call.op = "Disease.step"
  /\ Cardinality(Killed) = 1
  /\ Len(tracker.deaths[TheDisease]) = 1
  /\ \E a \in 1..NumAnimals : Was(a) = "S" /\ IsNow(a) = "I" /\ animals[a].active
  /\ \A a \in Killed : ~animals[a].active


(***************************************************************************)
(* Herd.immunize (model/livestock.py) on its own: a herd of NumAnimals     *)
(* animals is immunized once, at a date of the run.  The wear-off period   *)
(* of an animal is int(sigma * randn() + mu), an integer of either sign.   *)
(***************************************************************************)
\* int(wearoff_days): a period that ends before the run began when counted
\* from its first days, one that ends within the run, one that ends after it
ImmunizeDelays == {0 - 2, 1, EndDay + 1}

ImmunizeInit ==
  \E comp \in [1..NumAnimals -> {"S", "I", "R", "V"}], t \in 0..EndDay :
    /\ animals = [a \in 1..NumAnimals |->
                    [NewAnimal("FEMALE", 0, CHOOSE h \in Herdsmen : TRUE) EXCEPT
                       !.diseases = set_disease_state(@, TheDisease, comp[a])]]
    /\ herds = [h \in Herdsmen |-> [a \in 1..NumAnimals |-> a]]
    /\ tracker = [deaths |-> [c \in DeathCauses |-> <<>>], total_animals |-> NumAnimals]
    /\ veg_capacity = NoTime /\ decision = <<>>
    /\ failure = "" /\ dispatched = NoEvent /\ dispatch_count = EmptyBag
    /\ events = <<>> /\ lo_time = 0 /\ hi_time = EndDay /\ drained = <<>>
    /\ current_time = t /\ last_timestep = NoTime
    /\ time_call = [arg |-> 0, raised |-> NoEvent, before |-> 0]
    /\ exited = FALSE
    /\ pure_call = [op |-> "Herd.__init__"]

\* One call herd.immunize(disease, time); delay[a] is the period drawn for
\* animal a.
HerdImmunize(delay) ==
  /\ pure_call.op = "Herd.__init__"
  /\ \E st \in {Herd_immunize([animals |-> animals, herds |-> herds, events |-> events,
                               tracker |-> tracker, failure |-> ""],
                              CHOOSE h \in Herdsmen : TRUE, TheDisease, current_time, delay)} :
       /\ animals' = st.animals
       /\ events' = st.events
       /\ failure' = st.failure
  /\ pure_call' = [op |-> "Herd.immunize", before |-> animals, delay |-> delay]
  /\ UNCHANGED <<herds, tracker, veg_capacity, decision, dispatched, dispatch_count,
                 lo_time, hi_time, call, ncalls, admitted, returned, drained>>

ImmunizeNext ==
  \E delay \in [1..NumAnimals -> ImmunizeDelays] :
    HerdImmunize(delay) /\ UNCHANGED <<pvars, tvars, wvars, nvars, gvars, mvars>>

SpecImmunizeInit ==
  /\ ImmunizeInit
  /\ QueueIdle /\ PairIdle /\ WorldInit /\ NeighborIdle /\ GeoIdle /\ MoveIdle
SpecImmunize == SpecImmunizeInit /\ [][ImmunizeNext]_vars

\* The animals that were Susceptible or Recovered when immunize was called.
Eligible == {a \in 1..NumAnimals : Was(a) \in {"S", "R"}}

\* The WEAROFF event of an animal, for the period drawn for it.
WearoffEvent(a) ==
  <<current_time + pure_call.delay[a], "WEAROFF", Wearoff(TheDisease, a)>>

\* C24: after Herd.immunize(disease), with a wear-off distribution
\* configured, the animals of the herd that were Susceptible or Recovered
\* are Vaccinated and the others are in the compartment they were in; the
\* queue holds one WEAROFF event for each animal newly vaccinated whose
\* wear-off date is not after the queue's upper bound, and no other event.
C24_ImmunizeEligible ==
  pure_call.op = "Herd.immunize" =>
    /\ \A a \in 1..NumAnimals :
         IsNow(a) = (IF a \in Eligible THEN "V" ELSE Was(a))
    /\ \A a \in Eligible :
         Queued(WearoffEvent(a)) = (IF WearoffEvent(a)[1] <= hi_time THEN 1 ELSE 0)
    /\ Len(events) = Cardinality({a \in Eligible : WearoffEvent(a)[1] <= hi_time})



-----------------------------------------------------------------------------
(***************************************************************************)
(* Herdsmen on the move (agents.py 366-486, world.py 33-50 and 111-120).   *)
(* A run of the driver in which the herds hold no animal, the vaccination  *)
(* schedule is empty and the herdsmen's home village has paths.  The grid  *)
(* has TrekHeight rows and Width columns.  Coordinates and distances are   *)
(* whole numbers of units, UnitsPerKm to the kilometre; the cell centres   *)
(* are two kilometres apart, so that a herdsman, who covers one kilometre  *)
(* a day, moves by UnitsPerKm units.  The waypoints that follow one        *)
(* another on a path share a row or a column of the grid.                  *)
(***************************************************************************)
TrekHeight == 2        \* setup_params['height']
UnitsPerKm == 8        \* coordinate units to the kilometre
TrekEndDay == 5        \* the run ends on day TrekEndDay
MoveVegThreshold == 1  \* params['agents']['move_veg_threshold']

TrekCells == (0..(TrekHeight - 1)) \X (0..(Width - 1))

\* The village all herdsmen call home, and its paths (gis.paths): lists of
\* cell ids, a cell's id being its grid index here.
HomeVillage == <<0, 0>>
VillagePaths ==
  << <<HomeVillage>>,
     <<HomeVillage, <<0, Width - 1>>>>,
     <<HomeVillage, <<TrekHeight - 1, 0>>>> >>

\* Path.nextstep(stepid); the waypoints are indexed from 0 in the code.
nextstep(waypoints, stepid) ==
  IF stepid = Len(waypoints) - 1
  THEN <<0, waypoints[1]>>
  ELSE <<stepid + 1, waypoints[stepid + 2]>>

\* Herdsman.__init__
NewHerdsman ==
  [moving |-> FALSE, current_path |-> <<>>, current_path_step |-> NoTime,
   next_waypoint |-> NoCell, latlon |-> <<>>, direction |-> <<>>]

\* (cell.latitude, cell.longitude)
cell_latlon(c) == <<cell_lat[c], cell_lon[c]>>

Abs(x) == IF x < 0 THEN 0 - x ELSE x

\* geopy.distance.distance(a, b), for two points with the same latitude or
\* the same longitude, in units.
distance(a, b) == Abs(a[1] - b[1]) + Abs(a[2] - b[2])

\* Person.get_world_cell_by_latlon: the index of the cell.
get_world_cell_by_latlon(latlon) ==
  nearest_cell(lat_boundaries, lon_boundaries, first_dim_lat, latlon)

\* Herdsman.at_next_waypoint
at_next_waypoint(h) ==
  get_world_cell_by_latlon(h.latlon) = h.next_waypoint

\* Herdsman.update_direction_vector: d is the distance in units, which is
\* UnitsPerKm for a distance of 1.0 km, and the direction is the difference
\* of the coordinates divided by the distance in kilometres.  The quotients
\* are exact: the two cells share a row or a column.
update_direction_vector(st0, h) ==
  LET Body(st) ==
      IF st.failure # "" THEN st
      ELSE LET cur_latlon == cell_latlon(st.location[h])
               way_latlon == cell_latlon(st.hmen[h].next_waypoint)
               d0 == distance(cur_latlon, way_latlon)
               d == IF d0 < UnitsPerKm THEN UnitsPerKm ELSE d0
           IN [st EXCEPT !.tracker.total_distance = @ + d,
                         !.hmen[h].direction =
                            <<((way_latlon[1] - cur_latlon[1]) * UnitsPerKm) \div d,
                              ((way_latlon[2] - cur_latlon[2]) * UnitsPerKm) \div d>>]
  IN Once({Body(x) : x \in {st0}})

\* Herdsman.move_location_by_step
move_location_by_step(st0, h) ==
  LET Body(st) ==
      IF st.failure # "" THEN st
      ELSE LET latlon == <<st.hmen[h].latlon[1] + st.hmen[h].direction[1],
                           st.hmen[h].latlon[2] + st.hmen[h].direction[2]>>
               nearest == get_world_cell_by_latlon(latlon)
               s1 == [st EXCEPT !.hmen[h].latlon = latlon]
           IN IF st.location[h] # nearest
              THEN Once({[s1 EXCEPT !.grid = r.grid, !.live_cells = r.live_cells,
                                    !.location = r.location, !.failure = r.raised] :
                         r \in {move(st.grid, st.live_cells, st.location, h, nearest)}})
              ELSE s1
  IN Once({Body(x) : x \in {st0}})

\* The next move event set to the day before.
move_yesterday(st0, h, time) ==
  LET Body(st) ==
      IF st.failure # "" THEN st
      ELSE IF in_bounds(lo_time, hi_time, time - 1)
      THEN schedule(schedule(st, time - 1, "MOVEMENT", Herdsman(h)),
                    time - 1, "WORLDSTEP", NoSubject)
      ELSE st
  IN Once({Body(x) : x \in {st0}})

\* handle_move_event, lines 436-439 and 444-447: the next move event, and
\* the world step that follows it, are set to tomorrow when tomorrow is
\* within the queue's bounds.
move_tomorrow(st0, h, time) ==
  LET Body(st) ==
      IF st.failure # "" THEN st
      ELSE IF in_bounds(lo_time, hi_time, time + 1)
      THEN schedule(schedule(st, time + 1, "MOVEMENT", Herdsman(h)),
                    time + 1, "WORLDSTEP", NoSubject)
      ELSE st
  IN Once({Body(x) : x \in {st0}})

\* Tracker.record_occupancy(location, 1, "herdsman", day)
record_occupancy(st0, h, time) ==
  LET Body(st) ==
      IF st.failure # "" \/ st.exited THEN st
      ELSE [st EXCEPT !.tracker.occupants = Append(@, <<time, st.location[h]>>),
                      !.tracker.occupant_totals[st.location[h]] = @ + 1]
  IN Once({Body(x) : x \in {st0}})

\* The handler with a move event set on the completion of the loop too.
handle_move_event_after_loop(st0, h, time) ==
  LET Body(st) ==
      IF st.hmen[h].moving
      THEN record_occupancy(
             IF at_next_waypoint(st.hmen[h])
             THEN IF st.hmen[h].current_path_step = 0
                  THEN move_tomorrow([st EXCEPT !.hmen[h].moving = FALSE], h, time)
                  ELSE LET n == nextstep(st.hmen[h].current_path,
                                         st.hmen[h].current_path_step)
                           s1 == [st EXCEPT !.hmen[h].current_path_step = n[1],
                                            !.hmen[h].next_waypoint = n[2]]
                       IN move_tomorrow(
                            move_location_by_step(update_direction_vector(s1, h), h),
                            h, time)
             ELSE move_tomorrow(move_location_by_step(st, h), h, time),
             h, time)
      ELSE [st EXCEPT !.exited = TRUE]
  IN Once({Body(x) : x \in {st0}})

\* Herdsman.handle_move_event(time)
handle_move_event(st0, h, time) ==
  LET Body(st) ==
      IF st.hmen[h].moving
      THEN record_occupancy(
             IF at_next_waypoint(st.hmen[h])
             THEN IF st.hmen[h].current_path_step = 0
                  THEN [st EXCEPT !.hmen[h].moving = FALSE]
                  ELSE LET n == nextstep(st.hmen[h].current_path,
                                         st.hmen[h].current_path_step)
                           s1 == [st EXCEPT !.hmen[h].current_path_step = n[1],
                                            !.hmen[h].next_waypoint = n[2]]
                       IN move_tomorrow(
                            move_location_by_step(update_direction_vector(s1, h), h),
                            h, time)
             ELSE move_tomorrow(move_location_by_step(st, h), h, time),
             h, time)
      ELSE \* sys.exit()
           [st EXCEPT !.exited = TRUE]
  IN Once({Body(x) : x \in {st0}})

Herdsman_step_moves_again(st0, h, time, veg, path) ==
  LET Stepped(s1) ==
      IF s1.failure # "" THEN s1
      ELSE IF veg[s1.location[h]] = NoCapacity
      THEN [s1 EXCEPT !.failure = "TypeError"]
      ELSE IF veg[s1.location[h]] < MoveVegThreshold
      THEN LET n == nextstep(path, 0)
               s2 == [s1 EXCEPT !.hmen[h] =
                        [moving |-> TRUE, current_path |-> path,
                         current_path_step |-> n[1], next_waypoint |-> n[2],
                         latlon |-> cell_latlon(s1.location[h]),
                         direction |-> s1.hmen[h].direction]]
               s3 == update_direction_vector(s2, h)
           IN schedule(schedule(s3, time + 1, "MOVEMENT", Herdsman(h)),
                       time + 1, "WORLDSTEP", NoSubject)
      ELSE s1
  IN Once({Stepped(x) : x \in {Herd_step(st0, h, time, {})}})

\* Herdsman.step(time), for a herdsman whose village has paths: path is
\* what Village.get_path draws.
Herdsman_step_on_paths(st0, h, time, veg, path) ==
  LET Stepped(s1) ==
      IF s1.failure # "" \/ s1.hmen[h].moving THEN s1
      ELSE IF veg[s1.location[h]] = NoCapacity
      THEN [s1 EXCEPT !.failure = "TypeError"]
      ELSE IF veg[s1.location[h]] < MoveVegThreshold
      THEN LET n == nextstep(path, 0)
               s2 == [s1 EXCEPT !.hmen[h] =
                        [moving |-> TRUE, current_path |-> path,
                         current_path_step |-> n[1], next_waypoint |-> n[2],
                         latlon |-> cell_latlon(s1.location[h]),
                         direction |-> s1.hmen[h].direction]]
               s3 == update_direction_vector(s2, h)
           IN schedule(schedule(s3, time + 1, "MOVEMENT", Herdsman(h)),
                       time + 1, "WORLDSTEP", NoSubject)
      ELSE s1
  IN Once({Stepped(x) : x \in {Herd_step(st0, h, time, {})}})

\* AgentSet.step: the herdsmen step in the order they were added.
RECURSIVE step_herdsmen(_, _, _, _, _)
step_herdsmen(st0, hs, time, veg, path) ==
  LET Body(st) ==
      IF hs = <<>> \/ st.failure # "" THEN st
      ELSE step_herdsmen(Herdsman_step_on_paths(st, Head(hs), time, veg, path[Head(hs)]),
                         Tail(hs), time, veg, path)
  IN Once({Body(x) : x \in {st0}})

\* AgentSet.record: Herdsman.record has the tracker record the herd, which
\* is empty, and the herdsman's presence in its cell.
RECURSIVE record_herdsmen(_, _, _)
record_herdsmen(st0, hs, time) ==
  LET Body(st) ==
      IF hs = <<>> \/ st.failure # "" THEN st
      ELSE record_herdsmen(record_occupancy(st, Head(hs), time), Tail(hs), time)
  IN Once({Body(x) : x \in {st0}})

\* The state the main loop starts from (initialize.py 62-178, driver.py
\* 62-121): the coordinates of the grid, whose cell centres are pitch units
\* apart, the village, every herdsman placed at the village with an empty
\* herd, and the step, infection and GIS events.
TrekInitOn(cells, pitches, end_date) ==
  /\ lo_time = 0 /\ hi_time = end_date
  /\ current_time = 0 /\ last_timestep = NoTime
  /\ time_call = [arg |-> 0, raised |-> NoEvent, before |-> 0]
  /\ exited = FALSE
  /\ \E lat_first \in BOOLEAN, pitch \in pitches :
       LET lat_array == [c \in cells |-> IF lat_first THEN pitch * c[1] ELSE pitch * c[2]]
           lon_array == [c \in cells |-> IF lat_first THEN pitch * c[2] ELSE pitch * c[1]]
           fdl == lat_array[<<0, 0>>] = lat_array[<<0, 1>>]
       IN /\ cell_lat = lat_array
          /\ cell_lon = lon_array
          /\ first_dim_lat = fdl
          /\ lat_boundaries = IF ~fdl THEN boundaries(first_row(lat_array))
                                      ELSE boundaries(first_col(lat_array))
          /\ lon_boundaries = IF ~fdl THEN boundaries(first_col(lon_array))
                                      ELSE boundaries(first_row(lon_array))
  /\ nearest_call = [n |-> 0, latlon |-> <<>>, result |-> <<>>]
  /\ grid = [c \in cells |->
               IF c = HomeVillage
               THEN [residents |-> [a \in Agents |-> a], cell |-> "Village"]
               ELSE [residents |-> <<>>, cell |-> "GridSpace"]]
  /\ location = [a \in Agents |-> HomeVillage]
  /\ live_cells = [none |-> TRUE, cells |-> {}]
  /\ world_call = [op |-> "place_agent", raised |-> ""]
  /\ nplaced = NumAgents /\ usage = "ok" /\ only_moves = TRUE
  /\ hmen = [a \in Agents |-> NewHerdsman]
  /\ animals = <<>>
  /\ herds = [a \in Agents |-> <<>>]
  /\ tracker = [deaths |-> [c \in DeathCauses |-> <<>>], total_animals |-> 0,
                total_distance |-> 0, occupants |-> <<>>,
                occupant_totals |-> [c \in cells |-> 0]]
  /\ failure = ""
  /\ LET s0 == [events |-> <<>>, failure |-> ""]
         s1 == load_step_events(s0, enumerate_step_events(0, StepSize, end_date))
         s2 == load_events(s1, {0}, "GISUPDATE")
     IN \E st \in {s2} : events = st.events
  /\ veg_capacity = [c \in cells |-> NoCapacity]
  /\ decision = [d \in RunDiseases |-> [decision |-> -1, last_decision |-> -1]]
  /\ dispatched = NoEvent
  /\ dispatch_count = EmptyBag

\* The run on the grid of TrekHeight rows and Width columns.
TrekInit == TrekInitOn(TrekCells, {2 * UnitsPerKm}, TrekEndDay)

\* What a handler starts from: the event has been popped.
TrekBefore ==
  [animals |-> animals, herds |-> herds, events |-> Popped.events,
   tracker |-> tracker, failure |-> "", exited |-> FALSE,
   grid |-> grid, location |-> location, live_cells |-> live_cells, hmen |-> hmen]

\* The end of an iteration: the objects are as the handler left them, unless
\* set_time raised before the handler ran.
TrekFinish(st0, veg, last) ==
  \E st \in {st0}, e \in {Popped.result} :
  LET tm == set_time(current_time, e[1])
      ok == tm.raised = NoEvent
  IN /\ dispatched' = e
     /\ dispatch_count' = IF e[3] = NoSubject
                          THEN dispatch_count (+) SetToBag({<<e[1], e[2]>>})
                          ELSE dispatch_count
     /\ current_time' = tm.current_time
     /\ time_call' = [arg |-> e[1], raised |-> tm.raised, before |-> current_time]
     /\ events' = IF ok THEN st.events ELSE Popped.events
     /\ tracker' = IF ok THEN st.tracker ELSE tracker
     /\ failure' = IF ok THEN st.failure ELSE "TimeOrderViolation"
     /\ grid' = IF ok THEN st.grid ELSE grid
     /\ location' = IF ok THEN st.location ELSE location
     /\ live_cells' = IF ok THEN st.live_cells ELSE live_cells
     /\ hmen' = IF ok THEN st.hmen ELSE hmen
     /\ veg_capacity' = IF ok THEN veg ELSE veg_capacity
     /\ last_timestep' = IF ok THEN last ELSE last_timestep
     /\ exited' = IF ok THEN st.exited ELSE exited
     /\ UNCHANGED <<lo_time, hi_time, call, ncalls, admitted, returned, drained, pvars,
                    animals, herds, decision, world_call, nplaced, usage, only_moves,
                    nvars, gvars, fvars>>

\* driver.py 132-134: world.update_gis gives every cell the month's capacity.
TrekGISUPDATE ==
  /\ Dispatching("GISUPDATE")
  /\ \E veg \in [DOMAIN grid -> VegLevels] :
       TrekFinish(TrekBefore, veg, last_timestep)

\* driver.py 181-197: every herd is empty, so no animal is infected.
TrekINFECTION ==
  /\ Dispatching("INFECTION")
  /\ TrekFinish(TrekBefore, veg_capacity, last_timestep)

\* driver.py 136-138: subject.handle_event(time, MOVEMENT)
DispatchMOVEMENT ==
  /\ Dispatching("MOVEMENT")
  /\ \E e \in {Popped.result} :
       \E h \in {e[3].id}, time \in {e[1]} :
         TrekFinish(handle_move_event(TrekBefore, h, time), veg_capacity, last_timestep)

\* driver.py 146-149: world.step(params, time).  No cell holds an animal, so
\* the loop over the live cells changes nothing.
TrekWORLDSTEP ==
  /\ Dispatching("WORLDSTEP")
  /\ \E day \in {Popped.result[1]} :
       \E dt \in {current_step_duration(last_timestep, day)} :
         IF dt = 0
         THEN TrekFinish([TrekBefore EXCEPT !.exited = TRUE], veg_capacity, last_timestep)
         ELSE TrekFinish([TrekBefore EXCEPT !.live_cells = build_live_cells(grid, live_cells)],
                         veg_capacity, day)

\* driver.py 151-160: hoh.step (which does nothing), hmen.step, hmen.record
\* and hoh.record (which records nothing of the herdsmen).
AgentStepOnPaths(path) ==
  /\ Dispatching("AGENTSTEP")
  /\ \E time \in {Popped.result[1]} :
       TrekFinish(record_herdsmen(
                    step_herdsmen(TrekBefore, [a \in Agents |-> a], time,
                                  veg_capacity, path),
                    [a \in Agents |-> a], time),
                  veg_capacity, last_timestep)

\* The step of the agents, with the path Village.get_path draws for each
\* herdsman.
TrekAGENTSTEP ==
  \E path_num \in [Agents -> 1..Len(VillagePaths)] :
    AgentStepOnPaths([a \in Agents |-> VillagePaths[path_num[a]]])

TrekNext ==
  \/ TrekGISUPDATE
  \/ TrekINFECTION
  \/ DispatchMOVEMENT
  \/ TrekWORLDSTEP
  \/ TrekAGENTSTEP

SpecTrekInit ==
  /\ TrekInit
  /\ drained = <<>> /\ QueueIdle /\ PairIdle /\ NeighborIdle /\ PureIdle

SpecTrek == SpecTrekInit /\ [][TrekNext]_vars

\* The dates of the MOVEMENT events of herdsman h in a queue, one for each
\* event.
MovementDates(evs, h) ==
  [i \in {k \in 1..Len(evs) : evs[k][2] = "MOVEMENT" /\ evs[k][3] = Herdsman(h)}
     |-> evs[i][1]]

\* C25: when the main loop handles a MOVEMENT event for a moving herdsman,
\* then afterwards exactly one MOVEMENT event for that herdsman is in the
\* queue, and it is dated the day after the current date; unless the
\* herdsman was at its next waypoint with path step 0, and then it has
\* stopped moving and no MOVEMENT event for it is in the queue; or unless
\* the day after the current date is out of the queue's bounds, and then no
\* MOVEMENT event for it is in the queue.
C25_OneMovementOutstanding ==
  [][\A h \in Agents :
       (/\ DispatchMOVEMENT
        /\ Popped.result[3] = Herdsman(h)
        /\ hmen[h].moving
        /\ failure' = "")
       => LET dates == MovementDates(events', h) IN
          IF at_next_waypoint(hmen[h]) /\ hmen[h].current_path_step = 0
          THEN ~hmen'[h].moving /\ DOMAIN dates = {}
          ELSE IF ~in_bounds(lo_time, hi_time, current_time' + 1)
          THEN hmen'[h].moving /\ DOMAIN dates = {}
          ELSE /\ hmen'[h].moving
               /\ Cardinality(DOMAIN dates) = 1
               /\ \A i \in DOMAIN dates : dates[i] = current_time' + 1]_vars

\* A MOVEMENT event has been handled for a herdsman who has turned round
\* at the far waypoint of its path, and its next MOVEMENT event is in the
\* queue.
C25_Witness ==
  /\ dispatched # NoEvent /\ dispatched[2] = "MOVEMENT"
  /\ failure = ""
  /\ hmen[dispatched[3].id].moving
  /\ Len(hmen[dispatched[3].id].current_path) > 1
  /\ hmen[dispatched[3].id].current_path_step = 0
  /\ Queued(<<current_time + 1, "MOVEMENT", dispatched[3]>>) = 1


-----------------------------------------------------------------------------
(***************************************************************************)
(* Time.enumerate_step_events on its own (time.py 116-127): a clock made   *)
(* with any start date and any step size of at least one day, asked for    *)
(* the step events up to any end date.                                     *)
(***************************************************************************)
MaxStart == 3    \* Time.initial_date is one of the days 0..MaxStart
MaxStep == 4     \* Time.stepsize is 1..MaxStep days
MaxEnd == 8      \* end_date is one of the days 0..MaxEnd

\* Time.__init__(initial_date, stepsize)
StepsInit ==
  \E initial_date \in 0..MaxStart, stepsize \in 1..MaxStep :
    /\ pure_call = [op |-> "Time.__init__", initial_date |-> initial_date,
                    stepsize |-> stepsize]
    /\ current_time = initial_date /\ last_timestep = NoTime
    /\ time_call = [arg |-> 0, raised |-> NoEvent, before |-> 0]
    /\ exited = FALSE

\* A call time.enumerate_step_events(end_date).
EnumerateStepEvents(end_date) ==
  /\ pure_call.op = "Time.__init__"
  /\ pure_call' = [op |-> "Time.enumerate_step_events",
                   initial_date |-> pure_call.initial_date,
                   stepsize |-> pure_call.stepsize,
                   end_date |-> end_date,
                   result |-> enumerate_step_events(pure_call.initial_date,
                                                    pure_call.stepsize, end_date)]

StepsNext ==
  \E end_date \in 0..MaxEnd :
    EnumerateStepEvents(end_date)
      /\ UNCHANGED <<qvars, pvars, tvars, wvars, dvars, nvars, gvars, mvars>>

SpecStepsInit ==
  /\ StepsInit
  /\ events = <<>> /\ lo_time = NoTime /\ hi_time = NoTime /\ drained = <<>>
  /\ QueueIdle /\ PairIdle /\ WorldInit /\ DriverIdle /\ NeighborIdle
  /\ GeoIdle /\ MoveIdle

SpecSteps == SpecStepsInit /\ [][StepsNext]_vars

\* The dates initial_date + k * stepsize, k >= 0, that are not after the end
\* date.
StepDatesUpTo(initial_date, stepsize, end_date) ==
  {d \in initial_date..end_date : (d - initial_date) % stepsize = 0}

\* C26: the list returned by enumerate_step_events(end) holds, for every
\* date initial_date + k * stepsize (k >= 0) that is not after end, one
\* (date, WORLDSTEP) entry and one (date, AGENTSTEP) entry, holds no other
\* entry, and its dates never decrease along the list.
C26_StepEventsEnumerated ==
  pure_call.op = "Time.enumerate_step_events" =>
    LET r == pure_call.result
        dates == StepDatesUpTo(pure_call.initial_date, pure_call.stepsize,
                               pure_call.end_date)
        Count(e) == Cardinality({i \in 1..Len(r) : r[i] = e})
    IN /\ \A d \in dates : Count(<<d, "WORLDSTEP">>) = 1 /\ Count(<<d, "AGENTSTEP">>) = 1
       /\ \A i \in 1..Len(r) : r[i][1] \in dates /\ r[i][2] \in {"WORLDSTEP", "AGENTSTEP"}
       /\ \A i \in 1..(Len(r) - 1) : r[i][1] <= r[i + 1][1]

\* A call that returned several pairs, the last of them for the end date
\* itself.
C26_Witness ==
  /\ pure_call.op = "Time.enumerate_step_events"
  /\ Len(pure_call.result) >= 6
  /\ pure_call.stepsize > 1
  /\ pure_call.result[Len(pure_call.result)][1] = pure_call.end_date


-----------------------------------------------------------------------------
(***************************************************************************)
(* EventQueue.in_bounds (events.py 84-89): any sequence of add_event and   *)
(* in_bounds calls on a queue with any bounds.                             *)
(***************************************************************************)
\* A call eq.in_bounds(time).
InBounds(time) ==
  /\ call' = [op |-> "in_bounds", arg |-> <<time>>, raised |-> NoEvent,
              result |-> in_bounds(lo_time, hi_time, time), before |-> events]
  /\ UNCHANGED <<events, lo_time, hi_time, ncalls, admitted, returned, drained>>

BoundsNext ==
  \/ \E c \in QueueCalls : AddEvent(c[1], c[2], c[3])
       /\ UNCHANGED <<pvars, tvars, wvars, dvars, nvars, gvars, fvars, mvars>>
  \/ \E time \in 0..MaxTime : InBounds(time)
       /\ UNCHANGED <<pvars, tvars, wvars, dvars, nvars, gvars, fvars, mvars>>

SpecBounds == SpecQueueInit /\ [][BoundsNext]_vars

\* add_event(time, event, subject), called now, would return with the event
\* in the queue: it would neither raise nor drop the event.
WouldAdmit(time, event, subject) ==
  LET r == add_event(events, lo_time, hi_time, time, event, subject) IN
  r.raised = NoEvent /\ InList(<<time, event, subject>>, r.events)

\* C27: a call in_bounds(t) leaves the queue as it was, and returns true
\* exactly when t is not below lo_time and not above hi_time, a bound that
\* is None setting no limit; which is exactly when add_event at time t, for
\* any event, would neither raise nor drop the event.
C27_InBoundsPureAndExact ==
  call.op = "in_bounds" =>
    LET time == call.arg[1] IN
    /\ events = call.before
    /\ call.result = TRUE <=>
         /\ lo_time = NoTime \/ lo_time <= time
         /\ hi_time = NoTime \/ time <= hi_time
    /\ \A c \in QueueCalls :
         c[1] = time => (call.result = TRUE <=> WouldAdmit(c[1], c[2], c[3]))

\* in_bounds has been called on a queue that holds events, with both bounds
\* set, at a time below the lower bound.
C27_Witness ==
  /\ call.op = "in_bounds"
  /\ events # <<>>
  /\ lo_time # NoTime /\ hi_time # NoTime
  /\ call.arg[1] < lo_time
  /\ call.result = FALSE


-----------------------------------------------------------------------------
(***************************************************************************)
(* A run of the driver with any setup: the diseases of the run are the     *)
(* keys of params['disease'] (initialize.py 267-269), while an initial     *)
(* animal is given a compartment for the keys of the setup's               *)
(* pct_vaccinated (initialize.py 233-256), which may name any of them.     *)
(***************************************************************************)
SpecDriverAnySetupInit ==
  /\ \E pct_vaccinated \in SUBSET RunDiseases : DriverInitFor(pct_vaccinated)
  /\ drained = <<>> /\ QueueIdle /\ PairIdle /\ NeighborIdle /\ GeoIdle /\ PureIdle
  /\ MoveIdle

SpecDriverAnySetup == SpecDriverAnySetupInit /\ [][DriverNext]_vars

SIRV == {"S", "I", "R", "V"}

\* C28: whenever the main loop is between two events, every animal that is
\* a member of a herd has, for every disease registered with the world, one
\* compartment, which is S, I, R or V.
C28_EveryMemberHasCompartment ==
  \A a \in Herded : \A d \in RunDiseases :
    /\ d \in DOMAIN animals[a].diseases
    /\ animals[a].diseases[d] \in SIRV


-----------------------------------------------------------------------------
(***************************************************************************)
(* The order of dispatch.                                                  *)
(***************************************************************************)
\* The kinds from the first dispatched to the last dispatched on a date.
KindOrder ==
  <<"GISUPDATE", "CULL_OLDAGE", "LIV_FERTILE", "LIV_BIRTH", "VACCINATE",
    "INFECTION", "WEAROFF", "MOVEMENT", "WORLDSTEP", "AGENTSTEP">>

KindRank(event) == CHOOSE k \in 1..Len(KindOrder) : KindOrder[k] = event

-----------------------------------------------------------------------------
(***************************************************************************)
(* Termination of the main loop (driver.py 124-204).  The loop is          *)
(* sequential code: as long as next_event returns an event, the next       *)
(* iteration is taken, which is weak fairness of the loop's step.          *)
(***************************************************************************)
SpecTrekFair == SpecTrekInit /\ [][TrekNext]_vars /\ WF_vars(TrekNext)

\* next_event() returns None: the while loop ends.
Drained == Popped.result = NoEvent

-----------------------------------------------------------------------------
(***************************************************************************)
(* A run of the driver with any sample: the lifespan of an offspring is    *)
(* death_sigma * randn() + death_mu (livestock.py 198) and the wear-off    *)
(* period is int(sigma * randn() + mu) (livestock.py 122), two normal      *)
(* samples, which may be negative.  The date is the current date plus the  *)
(* sample (a date plus a fraction of a day is the date of that day).       *)
(***************************************************************************)
SampledLifespans == {-1} \cup Lifespans
SampledWearoffDays == {-1} \cup WearoffDays

\* driver.py 140-141, with any sample of the lifespan.
SampledLIV_BIRTH ==
  /\ Dispatching("LIV_BIRTH")
  /\ Len(animals) < MaxAnimals
  /\ \E gender \in {"MALE", "FEMALE"}, lifespan \in SampledLifespans :
       FinishLivestock(Animal_handle_event(Before, Popped.result[3].id, Popped.result[1],
                                           "LIV_BIRTH", gender, lifespan))

\* driver.py 162-164, with any sample of the wear-off period.
SampledVACCINATE ==
  /\ Dispatching("VACCINATE")
  /\ \E x \in {-1, 1}, delay \in [Herded -> SampledWearoffDays] :
       LET disease == CHOOSE d \in RunDiseases : TRUE
           dec == [decision EXCEPT ![disease] =
                     [decision |-> x, last_decision |-> decision[disease].decision]]
           st == IF x = 1
                 THEN Herd_immunize(Before, CHOOSE h \in Herdsmen : TRUE, disease,
                                    Popped.result[1], delay)
                 ELSE Before
       IN Finish(st, veg_capacity, dec, live_cells, last_timestep, exited)

SampledNext ==
  \/ DispatchGISUPDATE
  \/ SampledLIV_BIRTH
  \/ DispatchLIV_FERTILE
  \/ DispatchWORLDSTEP
  \/ DispatchAGENTSTEP
  \/ SampledVACCINATE
  \/ DispatchCULL_OLDAGE
  \/ DispatchWEAROFF
  \/ DispatchINFECTION

SpecDriverAnySample == SpecDriverInit /\ [][SampledNext]_vars

\* The events a handler added to the queue: those the queue holds after the
\* iteration beyond what the pop of the event left in it.
AddedByHandler == BagToSet(SeqToBag(events') (-) SeqToBag(Popped.events))

\* C31: every event added to the queue while the main loop handles an event
\* dated t has a date of t or later; the date of each dispatched event is
\* not before that of the one dispatched before it, and set_time does not
\* raise TimeOrderViolation.
C31_ScheduledNotBeforeNow ==
  [][/\ \A e \in AddedByHandler : e[1] >= Popped.result[1]
     /\ dispatched # NoEvent => dispatched'[1] >= dispatched[1]
     /\ failure' # "TimeOrderViolation"]_vars


-----------------------------------------------------------------------------
(***************************************************************************)
(* The wear-off of a vaccination (driver.py 173-179).                      *)
(***************************************************************************)
\* The main loop is about to dispatch a WEAROFF event to an active animal
\* whose compartment for the event's disease is not V.
WearoffNotVaccinated ==
  /\ Dispatching("WEAROFF")
  /\ animals[Popped.result[3].id].active
  /\ animals[Popped.result[3].id].diseases[Popped.result[3].disease] # "V"

\* C32: a WEAROFF event dispatched for an active animal whose compartment
\* for the disease is no longer V leaves the animal's compartment as it is.
C32_WearoffOnlyFromVaccinated ==
  [][WearoffNotVaccinated =>
       animals'[Popped.result[3].id].diseases = animals[Popped.result[3].id].diseases]_vars


-----------------------------------------------------------------------------
(***************************************************************************)
(* A journey to a waypoint two cells away from the village, on a grid of   *)
(* TrekHeight rows and WalkWidth columns whose cells are one kilometre or  *)
(* three quarters of a kilometre wide.  The village has one path, from the *)
(* village to the waypoint and back.  The main loop is sequential code: as *)
(* long as next_event returns an event the next iteration is taken.        *)
(***************************************************************************)
WalkWidth == 4         \* setup_params['width']
WalkEndDay == 8        \* the run ends on day WalkEndDay

WalkCells == (0..(TrekHeight - 1)) \X (0..(WalkWidth - 1))
WalkWaypoint == <<0, 2>>
WalkPath == <<HomeVillage, WalkWaypoint>>
WalkPitches == {UnitsPerKm, (3 * UnitsPerKm) \div 4}

WalkInit == TrekInitOn(WalkCells, WalkPitches, WalkEndDay)

WalkAGENTSTEP == AgentStepOnPaths([a \in Agents |-> WalkPath])

WalkNext ==
  \/ TrekGISUPDATE
  \/ TrekINFECTION
  \/ DispatchMOVEMENT
  \/ TrekWORLDSTEP
  \/ WalkAGENTSTEP

SpecWalkInit ==
  /\ WalkInit
  /\ drained = <<>> /\ QueueIdle /\ PairIdle /\ NeighborIdle /\ PureIdle

SpecWalk == SpecWalkInit /\ [][WalkNext]_vars /\ WF_vars(WalkNext)

\* C33: a herdsman that starts moving on the first day of a run, which
\* leaves it the days the journey takes, eventually has reached the
\* waypoint of its path, is back in the village and has stopped moving.
C33_MovingHerdsmanArrives ==
  \A h \in Agents :
    (hmen # <<>> /\ hmen[h].moving /\ current_time = 0)
      ~> (/\ ~hmen[h].moving
          /\ location[h] = HomeVillage
          /\ tracker.occupant_totals[WalkWaypoint] > 0)

(***************************************************************************)
(* Herd membership and the active flag (livestock.py 251-259, 280-290;     *)
(* disease.py 139-150; driver.py 166-171).                                 *)
(***************************************************************************)
\* How many times animal a is in a list of animals.
Occurrences(a, list) == Cardinality({i \in 1..Len(list) : list[i] = a})

\* How many times animal a is in the lists of all the herds.
RECURSIVE OccurrencesIn(_, _)
OccurrencesIn(a, hs) ==
  IF hs = {} THEN 0
  ELSE LET h == CHOOSE x \in hs : TRUE
       IN Occurrences(a, herds[h]) + OccurrencesIn(a, hs \ {h})

\* C34: between two events, an animal is active exactly when it is in the
\* list of its herd, every animal is in the lists of all herds at most once,
\* and no cull has been asked for an animal that its herd does not hold.
C34_ActiveIffInHerd ==
  /\ failure # "ValueError"
  /\ \A a \in DOMAIN animals :
       /\ animals[a].active <=> InList(a, herds[animals[a].herd])
       /\ OccurrencesIn(a, DOMAIN herds) <= 1

\* An animal has been culled for another cause than its age, and the event
\* of its old age has then been dispatched to it.
C34_CulledThenOldAge ==
  /\ dispatched # NoEvent
  /\ dispatched[2] = "CULL_OLDAGE"
  /\ ~animals[dispatched[3].id].active
  /\ tracker.deaths["age"] = <<>>
  /\ failure = ""

(***************************************************************************)
(* The tracker's count of animals (stats.py 40-85; livestock.py 180-207,   *)
(* 251-259; disease.py 139-150; driver.py 166-171).                        *)
(***************************************************************************)
\* sum([herd.size() for herd in herds]) over the herds hs
RECURSIVE HerdSizes(_)
HerdSizes(hs) ==
  IF hs = {} THEN 0
  ELSE LET h == CHOOSE x \in hs : TRUE IN Len(herds[h]) + HerdSizes(hs \ {h})

\* The number of deaths the tracker has recorded for the causes cs.
RECURSIVE DeathsRecorded(_)
DeathsRecorded(cs) ==
  IF cs = {} THEN 0
  ELSE LET c == CHOOSE x \in cs : TRUE
       IN Len(tracker.deaths[c]) + DeathsRecorded(cs \ {c})

\* C35: between two events, the sizes of all herds and the deaths recorded
\* for all causes add up to tracker.total_animals.
C35_PopulationConserved ==
  HerdSizes(DOMAIN herds) + DeathsRecorded(DOMAIN tracker.deaths) = tracker.total_animals

\* A birth has been recorded, and deaths of two different causes.
C35_BirthAndDeaths ==
  /\ failure = ""
  /\ tracker.total_animals > NumAnimals
  /\ \E c1, c2 \in DOMAIN tracker.deaths :
       c1 # c2 /\ tracker.deaths[c1] # <<>> /\ tracker.deaths[c2] # <<>>

(***************************************************************************)
(* One step of the world for a date (world.py 334-343; events.py 104-108;  *)
(* agents.py 437-486).                                                     *)
(***************************************************************************)
\* C36: World.step is never entered with a duration of zero days: when a
\* WORLDSTEP is about to be dispatched the time elapsed since the last step
\* is not zero, the queue never holds two WORLDSTEP events of one date, no
\* two have been dispatched for one date, and the run has not exited on
\* 'Already stepped'.
C36_WorldStepsOncePerDate ==
  /\ ~exited
  /\ Dispatching("WORLDSTEP") =>
       current_step_duration(last_timestep, Popped.result[1]) # 0
  /\ \A d \in lo_time..hi_time :
       /\ Queued(<<d, "WORLDSTEP", NoSubject>>) <= 1
       /\ CopiesIn(<<d, "WORLDSTEP">>, dispatch_count) <= 1

\* The world has stepped on a date of the periodic steps, after a herdsman
\* moved on that date: the step of the world that the herdsman asked for the
\* day before and the periodic one were one event.
C36_PeriodicAndMovementStep ==
  /\ dispatched # NoEvent
  /\ dispatched[2] = "WORLDSTEP"
  /\ dispatched[1] > 0 /\ dispatched[1] % StepSize = 0
  /\ \E h \in Agents :
       /\ hmen[h].moving
       /\ Queued(<<dispatched[1] + 1, "MOVEMENT", Herdsman(h)>>) = 1
  /\ CopiesIn(<<dispatched[1], "WORLDSTEP">>, dispatch_count) = 1
  /\ Queued(<<dispatched[1], "WORLDSTEP", NoSubject>>) = 0
  /\ failure = ""

(***************************************************************************)
(* The MOVEMENT events of a herdsman (agents.py 422-452, 456-486).         *)
(***************************************************************************)
\* C37: between two events, the queue holds at most one MOVEMENT event for
\* each herdsman and none for a herdsman that is not moving; the MOVEMENT
\* event about to be dispatched is for a moving herdsman, and the run has
\* not exited on a movement event for a nonmoving agent.
C37_MovementOnlyWhileMoving ==
  /\ ~exited
  /\ \A h \in Agents :
       /\ Cardinality(DOMAIN MovementDates(events, h)) <= 1
       /\ ~hmen[h].moving => DOMAIN MovementDates(events, h) = {}
  /\ Dispatching("MOVEMENT") => hmen[Popped.result[3].id].moving

\* The last MOVEMENT event of a herdsman has been dispatched: it is back
\* and has stopped, while another herdsman is on its way with its next
\* MOVEMENT event in the queue.
C37_OneStoppedOneMoving ==
  /\ dispatched # NoEvent /\ dispatched[2] = "MOVEMENT"
  /\ failure = ""
  /\ ~hmen[dispatched[3].id].moving
  /\ \E h \in Agents :
       /\ hmen[h].moving
       /\ Cardinality(DOMAIN MovementDates(events, h)) = 1

(***************************************************************************)
(* World.nearest_cell on grids of every size that initialize_objects can   *)
(* set up (world.py 199-227; initialize.py 51-58, 87-98): the first index  *)
(* has one cell or more, the second has two or more, since cell_lat[0,1]   *)
(* is read.                                                                *)
(***************************************************************************)
\* The strictly increasing lists of 1..MaxAxis centres of one axis.
AnyAxisCentres ==
  UNION {{c \in [1..n -> CentreCoords] : \A k \in 1..(n - 1) : c[k] < c[k + 1]} :
           n \in 1..MaxAxis}

\* What np.ndarray(shape=(n+1,)) may hold in an entry before it is assigned.
Unassigned == {0 - 1, 0, 1, 5}

\* initialize.boundaries(centers) for any number of centres.  With a single
\* centre the loop assigns nothing, and b[0] is computed from what the new
\* array holds in b[1], then b[1] from b[0].
boundaries_any(centers, b1) ==
  IF Len(centers) = 1
  THEN LET b0 == centers[1] - (b1 - centers[1])
       IN <<b0, centers[1] + (centers[1] - b0)>>
  ELSE boundaries(centers)

\* A grid aligned with the axes: along is the list of centres along the
\* first index, across the list along the second.
GeoInitAnySize ==
  \E along \in AnyAxisCentres, across \in AxisCentres, lat_first \in BOOLEAN,
     b1 \in Unassigned :
    LET index == (0..(Len(along) - 1)) \X (0..(Len(across) - 1))
        lat_array == [c \in index |-> IF lat_first THEN along[c[1] + 1] ELSE across[c[2] + 1]]
        lon_array == [c \in index |-> IF lat_first THEN across[c[2] + 1] ELSE along[c[1] + 1]]
        fdl == lat_array[<<0, 0>>] = lat_array[<<0, 1>>]
    IN /\ Len(along) > 1 => b1 = 0
       /\ cell_lat = lat_array
       /\ cell_lon = lon_array
       /\ first_dim_lat = fdl
       /\ lat_boundaries = IF ~fdl THEN boundaries_any(first_row(lat_array), b1)
                                   ELSE boundaries_any(first_col(lat_array), b1)
       /\ lon_boundaries = IF ~fdl THEN boundaries_any(first_col(lon_array), b1)
                                   ELSE boundaries_any(first_row(lon_array), b1)
       /\ nearest_call = [n |-> 0, latlon |-> <<>>, result |-> <<>>]

SpecNearestAnySizeInit ==
  /\ GeoInitAnySize
  /\ events = <<>> /\ lo_time = NoTime /\ hi_time = NoTime /\ drained = <<>>
  /\ QueueIdle /\ PairIdle /\ TimeIdle /\ WorldInit /\ DriverIdle /\ NeighborIdle /\ PureIdle /\ MoveIdle

SpecNearestAnySize == SpecNearestAnySizeInit /\ [][NearestNext]_vars

\* C38: whatever the size of the grid and the point asked for, the pair
\* that nearest_cell returns is the index of a cell of the grid.
C38_NearestCellInGrid ==
  nearest_call.n = 1 => nearest_call.result \in DOMAIN cell_lat

(***************************************************************************)
(* The index of the live cells when herdsmen move (world.py 249-270,       *)
(* 350-356; driver.py 100-160).                                            *)
(***************************************************************************)
\* C39: World.move is not called while live_cells is None: whenever a
\* MOVEMENT event is in the queue or has just been dispatched, a WORLDSTEP
\* has built the index, and no call of move has failed on a missing index.
C39_IndexBuiltBeforeMove ==
  /\ (\E i \in 1..Len(events) : events[i][2] = "MOVEMENT") => ~live_cells.none
  /\ (dispatched # NoEvent /\ dispatched[2] = "MOVEMENT") => ~live_cells.none
  /\ failure \notin {"AttributeError", "TypeError"}

\* A MOVEMENT event has taken a herdsman out of its village into a cell
\* that the index now holds.
C39_MovedWithIndex ==
  /\ dispatched # NoEvent /\ dispatched[2] = "MOVEMENT"
  /\ failure = ""
  /\ location[dispatched[3].id] # HomeVillage
  /\ ~live_cells.none
  /\ location[dispatched[3].id] \in live_cells.cells

(***************************************************************************)
(* The assertions of Animal.handle_event and the events they rely on       *)
(* (livestock.py 134-158, 167-176, 226-249; initialize.py 224-230).        *)
(***************************************************************************)
\* The number of events of a kind that the queue holds for animal a.
QueuedFor(event, a) ==
  Cardinality({i \in 1..Len(events) : events[i][2] = event /\ events[i][3] = Animal(a)})

\* The assertions hold for the event about to be dispatched and have not
\* failed, and no animal has two LIV_BIRTH or two LIV_FERTILE events queued.
AssertionsHold ==
  /\ failure # "AssertionError"
  /\ Dispatching("LIV_BIRTH") =>
       /\ animals[Popped.result[3].id].pregnant
       /\ ~animals[Popped.result[3].id].fertile
  /\ Dispatching("LIV_FERTILE") => ~animals[Popped.result[3].id].pregnant
  /\ \A a \in DOMAIN animals :
       /\ QueuedFor("LIV_FERTILE", a) <= 1
       /\ QueuedFor("LIV_BIRTH", a) <= 1
       /\ ~animals[a].pregnant => QueuedFor("LIV_BIRTH", a) = 0

\* C40 as stated: the assertions of handle_event never fail, every pregnant
\* animal has exactly one LIV_BIRTH event in the queue, and every animal at
\* most one LIV_FERTILE event.
C40_ExactlyOneBirthQueued ==
  /\ AssertionsHold
  /\ \A a \in DOMAIN animals :
       animals[a].pregnant => QueuedFor("LIV_BIRTH", a) = 1

\* C40, amended: the assertions of handle_event never fail, every animal has
\* at most one LIV_FERTILE event in the queue, a pregnant animal has at most
\* one LIV_BIRTH event in the queue and an animal that is not pregnant none;
\* a pregnant animal has none only if the birth falls after the end date,
\* where add_event drops the event.
C40_AssertionsNeverFail ==
  /\ AssertionsHold
  /\ \A a \in DOMAIN animals :
       (animals[a].pregnant /\ QueuedFor("LIV_BIRTH", a) = 0)
         => ~in_bounds(lo_time, hi_time, current_time + GestationPeriod)

\* A birth has been handled, and an animal is pregnant whose LIV_BIRTH
\* event the queue did not take.
C40_BirthAfterEndDate ==
  /\ failure = ""
  /\ tracker.total_animals > NumAnimals
  /\ \E a \in DOMAIN animals :
       /\ animals[a].pregnant
       /\ animals[a].active
       /\ QueuedFor("LIV_BIRTH", a) = 0

====
